---- MODULE Spec2Model ----
(***************************************************************************)
(* hashnode-to-obsidian: the conversion run of h2o.py (parse, enrich,      *)
(* transform, images, generate) and the two transformers' pure functions.  *)
(*                                                                         *)
(* Python values are tagged records; a Python str is a sequence of         *)
(* one-character strings, so that slicing, splitting and the regular       *)
(* expressions of the source are computed character by character.  A dict  *)
(* is a function whose domain is the set of keys present.                  *)
(***************************************************************************)
EXTENDS Integers, Sequences, FiniteSets, TLC

\* ---------------------------------------------------------------- bounds
\* Longest export (number of posts in the 'posts' array) the run is given.
MaxPosts == 2
\* Longest tag list of an enrichment record given to the resolvers.
MaxTags == 2

\* ---------------------------------------------------------- Python values
None == [t |-> "none"]
Str(s) == [t |-> "str", s |-> s]
PyInt(n) == [t |-> "int", n |-> n]
Bool(b) == [t |-> "bool", b |-> b]
Dict(d) == [t |-> "dict", d |-> d]
List(l) == [t |-> "list", l |-> l]
\* A raised exception, as the value of the call that raised it.
Raise(exc) == [t |-> "raise", exc |-> exc]
IsRaise(v) == v.t = "raise"
EmptyDict == [k \in {} |-> None]
EmptyStr == Str(<< >>)

\* bool(v)
Truthy(v) ==
    CASE v.t = "none" -> FALSE
      [] v.t = "str" -> Len(v.s) > 0
      [] v.t = "int" -> v.n # 0
      [] v.t = "bool" -> v.b
      [] v.t = "dict" -> DOMAIN v.d # {}
      [] v.t = "list" -> Len(v.l) > 0
      [] OTHER -> FALSE

\* a or b
Or(a, b) == IF Truthy(a) THEN a ELSE b

\* d.get(k, default) on a dict d
Get(d, k, default) == IF k \in DOMAIN d THEN d[k] ELSE default

\* d with key k set to v
Put(d, k, v) == [x \in DOMAIN d \cup {k} |-> IF x = k THEN v ELSE d[x]]

\* The first raised exception of a sequence of evaluated values, or None.
FirstRaise(vs) ==
    IF \E i \in 1..Len(vs) : IsRaise(vs[i])
    THEN vs[CHOOSE i \in 1..Len(vs) :
                IsRaise(vs[i]) /\ \A j \in 1..(i - 1) : ~IsRaise(vs[j])]
    ELSE None

\* Op applied to the value of v: v is evaluated once, before Op's body reads it.
With(v, Op(_)) == CHOOSE r \in {Op(x) : x \in {v}} : TRUE

\* ------------------------------------------------------------- characters
Digits == {"0", "1", "2", "3", "4", "5", "6", "7", "8", "9"}
DigitSeq == <<"0", "1", "2", "3", "4", "5", "6", "7", "8", "9">>
UpperSeq == <<"A", "B", "C", "D", "E", "F", "G", "H", "I", "J", "K", "L", "M",
              "N", "O", "P", "Q", "R", "S", "T", "U", "V", "W", "X", "Y", "Z">>
LowerSeq == <<"a", "b", "c", "d", "e", "f", "g", "h", "i", "j", "k", "l", "m",
              "n", "o", "p", "q", "r", "s", "t", "u", "v", "w", "x", "y", "z">>
UpperLetters == {UpperSeq[i] : i \in 1..Len(UpperSeq)}
LowerLetters == {LowerSeq[i] : i \in 1..Len(LowerSeq)}
\* \w of the re module (ASCII part)
WordChars == UpperLetters \cup LowerLetters \cup Digits \cup {"_"}
\* \s of the re module (the whitespace the model's texts use)
SpaceChars == {" ", "\n", "\t"}

DigitVal(c) == (CHOOSE i \in 1..10 : DigitSeq[i] = c) - 1

\* str.lower() of one character
LowerChar(c) ==
    IF c \in UpperLetters
    THEN LowerSeq[CHOOSE i \in 1..Len(UpperSeq) : UpperSeq[i] = c]
    ELSE c

\* ---------------------------------------------------------------- strings
\* s.lower()
Lower(s) == [i \in 1..Len(s) |-> LowerChar(s[i])]

\* s[:n]
Prefix(s, n) == SubSeq(s, 1, IF n < Len(s) THEN n ELSE Len(s))

\* s[n:] (n counted from 0)
Suffix(s, n) == SubSeq(s, n + 1, Len(s))

\* s.startswith(p) at offset i (1-based): p occurs in s at position i
OccursAt(s, p, i) ==
    /\ i >= 1
    /\ i + Len(p) - 1 <= Len(s)
    /\ \A k \in 1..Len(p) : s[i + k - 1] = p[k]

StartsWith(s, p) == OccursAt(s, p, 1)

\* p in s
Contains(s, p) == \E i \in 1..(Len(s) + 1) : OccursAt(s, p, i)

\* s.find(p) as a 1-based position, 0 when p does not occur from position i on
FindFrom(s, p, i) ==
    IF \E k \in i..(Len(s) + 1) : OccursAt(s, p, k)
    THEN CHOOSE k \in i..(Len(s) + 1) :
            OccursAt(s, p, k) /\ \A j \in i..(k - 1) : ~OccursAt(s, p, j)
    ELSE 0

\* s.replace(old, new), old not empty: every non-overlapping occurrence, left to right
RECURSIVE Replace(_, _, _)
Replace(s, old, new) ==
    With(FindFrom(s, old, 1), LAMBDA k :
        IF k = 0 THEN s
        ELSE SubSeq(s, 1, k - 1) \o new
             \o With(Suffix(s, k - 1 + Len(old)), LAMBDA rest : Replace(rest, old, new)))

\* s.split(sep)[0]
SplitFirst(s, sep) ==
    With(FindFrom(s, sep, 1), LAMBDA k : IF k = 0 THEN s ELSE SubSeq(s, 1, k - 1))

\* The first position of s that holds no character of the set (Len(s) + 1 when
\* there is none), and the last (0 when there is none).
FirstOutside(s, chars) ==
    IF \E i \in 1..Len(s) : s[i] \notin chars
    THEN CHOOSE i \in 1..Len(s) : s[i] \notin chars /\ \A j \in 1..(i - 1) : s[j] \in chars
    ELSE Len(s) + 1

LastOutside(s, chars) ==
    IF \E i \in 1..Len(s) : s[i] \notin chars
    THEN CHOOSE i \in 1..Len(s) :
            s[i] \notin chars /\ \A j \in (i + 1)..Len(s) : s[j] \in chars
    ELSE 0

\* s.lstrip(chars), s.rstrip(chars), s.strip(chars)
LStrip(s, chars) == SubSeq(s, FirstOutside(s, chars), Len(s))

RStrip(s, chars) == SubSeq(s, 1, LastOutside(s, chars))

Strip(s, chars) == SubSeq(s, FirstOutside(s, chars), LastOutside(s, chars))

\* re.sub(r'[class]', '', s): every character of the class removed
RemoveChars(s, class) == SelectSeq(s, LAMBDA c : c \notin class)

\* re.sub(r'[class]+', c, s): every maximal run of the class replaced by the
\* character c.  What survives is every character outside the class and, as c,
\* the first character of every run.
CollapseRuns(s, class, c) ==
    With(SelectSeq([i \in 1..Len(s) |-> i],
                   LAMBDA i : s[i] \notin class \/ i = 1 \/ s[i - 1] \notin class),
         LAMBDA keep : [j \in 1..Len(keep) |->
                            IF s[keep[j]] \in class THEN c ELSE s[keep[j]]])

\* '\n'.join(lines)
RECURSIVE Join(_, _)
Join(lines, sep) ==
    IF Len(lines) = 0 THEN << >>
    ELSE IF Len(lines) = 1 THEN lines[1]
    ELSE lines[1] \o sep \o With(Tail(lines), LAMBDA rest : Join(rest, sep))

\* str(n) of an int n >= 0
RECURSIVE IntToStr(_)
IntToStr(n) ==
    IF n < 10 THEN <<DigitSeq[n + 1]>>
    ELSE IntToStr(n \div 10) \o <<DigitSeq[(n % 10) + 1]>>

\* str(v)
PyStr(v) ==
    CASE v.t = "str" -> v.s
      [] v.t = "int" -> IntToStr(v.n)
      [] v.t = "none" -> <<"N","o","n","e">>
      [] v.t = "bool" -> IF v.b THEN <<"T","r","u","e">> ELSE <<"F","a","l","s","e">>

\* ------------------------------------------------------------------ dates
\* int(s[i:i+n]) for n decimal digits
RECURSIVE Num(_, _, _)
Num(s, i, n) ==
    IF n = 0 THEN 0 ELSE 10 * Num(s, i, n - 1) + DigitVal(s[i + n - 1])

AllDigits(s, i, n) ==
    /\ i + n - 1 <= Len(s)
    /\ \A k \in i..(i + n - 1) : s[k] \in Digits

IsLeap(y) == (y % 4 = 0 /\ y % 100 # 0) \/ y % 400 = 0

DaysInMonth(y, m) ==
    IF m = 2 THEN (IF IsLeap(y) THEN 29 ELSE 28)
    ELSE IF m \in {4, 6, 9, 11} THEN 30 ELSE 31

\* The digits of s replaced by "d": the layout of a time string.
Shape(s) == [i \in 1..Len(s) |-> IF s[i] \in Digits THEN "d" ELSE s[i]]

\* HH[:MM[:SS[.fff[fff]]]]
TimeShapes == {<<"d","d">>, <<"d","d",":","d","d">>, <<"d","d",":","d","d",":","d","d">>, <<"d","d",":","d","d",":","d","d",".","d","d","d">>, <<"d","d",":","d","d",":","d","d",".","d","d","d","d","d","d">>}
\* the offset after the sign: HH:MM[:SS[.ffffff]]
OffsetShapes == {<<"d","d",":","d","d">>, <<"d","d",":","d","d",":","d","d">>, <<"d","d",":","d","d",":","d","d",".","d","d","d","d","d","d">>}

\* hours, minutes and seconds of a string of one of the layouts are in range
ClockInRange(s) ==
    /\ Num(s, 1, 2) < 24
    /\ Len(s) >= 5 => Num(s, 4, 2) < 60
    /\ Len(s) >= 8 => Num(s, 7, 2) < 60

\* the time part of datetime.fromisoformat: HH[:MM[:SS[.fff[fff]]]][+HH:MM[:SS[.ffffff]]]
IsIsoTime(tstr) ==
    With(tstr, LAMBDA ts :
        LET minus == FindFrom(ts, <<"-">>, 1)
            plus == FindFrom(ts, <<"+">>, 1)
            tz_pos == IF minus > 0 THEN minus ELSE plus
            timestr == IF tz_pos > 0 THEN SubSeq(ts, 1, tz_pos - 1) ELSE ts
            tzstr == IF tz_pos > 0 THEN Suffix(ts, tz_pos) ELSE << >>
        IN /\ Shape(timestr) \in TimeShapes
           /\ ClockInRange(timestr)
           /\ tz_pos > 0 => (Shape(tzstr) \in OffsetShapes /\ ClockInRange(tzstr)))

\* datetime.datetime.fromisoformat(s): the date (year, month, day) of the parsed
\* timestamp, or a ValueError.  YYYY-MM-DD, then optionally one separator
\* character and a time: the layouts every release of Python 3 accepts (later
\* releases accept further layouts; the date pools hold none of those).
fromisoformat(date_string) ==
    With(date_string, LAMBDA s :
        IF /\ Len(s) >= 10
           /\ AllDigits(s, 1, 4) /\ s[5] = "-" /\ AllDigits(s, 6, 2)
           /\ s[8] = "-" /\ AllDigits(s, 9, 2)
           /\ Num(s, 1, 4) >= 1
           /\ Num(s, 6, 2) \in 1..12
           /\ Num(s, 9, 2) \in 1..DaysInMonth(Num(s, 1, 4), Num(s, 6, 2))
           /\ Len(s) > 10 => IsIsoTime(Suffix(s, 11))
        THEN [t |-> "date", y |-> Num(s, 1, 4), m |-> Num(s, 6, 2), d |-> Num(s, 9, 2)]
        ELSE Raise("ValueError"))

\* n as at least w decimal digits, zero padded
ZeroPad(n, w) ==
    LET digits == IntToStr(n)
    IN IF Len(digits) >= w THEN digits
       ELSE [i \in 1..(w - Len(digits)) |-> "0"] \o digits

\* date.strftime('%Y-%m-%d') (years from 1000 on, where every platform pads alike)
strftime(date) ==
    ZeroPad(date.y, 4) \o <<"-">> \o ZeroPad(date.m, 2) \o <<"-">> \o ZeroPad(date.d, 2)

\* A faulty _parse_date: no branch for strings that hold a 'T', every string
\* goes to fromisoformat.
Untested_parse_date(date_string, today) ==
    IF ~Truthy(date_string) THEN Str(today)
    ELSE IF date_string.t # "str" THEN Str(today)
    ELSE With(fromisoformat(Replace(date_string.s, <<"Z">>, <<"+","0","0",":","0","0">>)), LAMBDA parsed_date :
            IF IsRaise(parsed_date) THEN Str(today) ELSE Str(strftime(parsed_date)))

\* ObsidianTransformer._parse_date(date_string), the clock reading `today`
ObsidianTransformer_parse_date(date_string, today) ==
    With(date_string, LAMBDA ds :
        IF ~Truthy(ds) THEN Str(today)
        ELSE IF ds.t # "str" THEN Str(today)       \* TypeError or AttributeError, caught
        ELSE IF Contains(ds.s, <<"T">>) THEN Str(SplitFirst(ds.s, <<"T">>))
        ELSE With(fromisoformat(Replace(ds.s, <<"Z">>, <<"+","0","0",":","0","0">>)), LAMBDA parsed_date :
                IF IsRaise(parsed_date) THEN Str(today) ELSE Str(strftime(parsed_date))))

\* ContentTransformer._parse_date(date_string), the clock reading `today`
ContentTransformer_parse_date(date_string, today) ==
    With(date_string, LAMBDA ds :
        IF ~Truthy(ds) THEN Str(today)
        ELSE IF ds.t # "str" THEN Str(today)       \* TypeError or AttributeError, caught
        ELSE IF Contains(ds.s, <<"T">>) THEN Str(SplitFirst(ds.s, <<"T">>))
        ELSE With(fromisoformat(Replace(ds.s, <<"Z">>, <<"+","0","0",":","0","0">>)), LAMBDA parsed_date :
                IF IsRaise(parsed_date) THEN Str(today) ELSE Str(strftime(parsed_date))))

\* ------------------------------------------------------------ text helpers
\* A faulty _slugify: the final strip('-') is missing.
Unstripped_slugify(text) ==
    With(Lower(text), LAMBDA slug :
    With(SelectSeq(slug, LAMBDA c : c \in WordChars \cup SpaceChars \cup {"-"}), LAMBDA kept :
        CollapseRuns(kept, SpaceChars \cup {"-"}, "-")))

\* ObsidianTransformer._slugify(text): SLUG_SPECIAL_CHARS [^\w\s-] removed,
\* SLUG_SPACES [-\s]+ replaced by '-', then strip('-')
ObsidianTransformer_slugify(text) ==
    With(Lower(text), LAMBDA slug :
    With(SelectSeq(slug, LAMBDA c : c \in WordChars \cup SpaceChars \cup {"-"}), LAMBDA kept :
    With(CollapseRuns(kept, SpaceChars \cup {"-"}, "-"), LAMBDA dashed :
        Strip(dashed, {"-"}))))

\* ContentTransformer._slugify(text)
ContentTransformer_slugify(text) ==
    With(Lower(text), LAMBDA slug :
    With(SelectSeq(slug, LAMBDA c : c \in WordChars \cup SpaceChars \cup {"-"}), LAMBDA kept :
    With(CollapseRuns(kept, SpaceChars \cup {"-"}, "-"), LAMBDA dashed :
        Strip(dashed, {"-"}))))

\* ObsidianTransformer._generate_description(title)
ObsidianTransformer_generate_description(title) == <<"R","e","a","d"," ","a","b","o","u","t"," ">> \o Lower(title)

\* ContentTransformer._generate_excerpt(title)
ContentTransformer_generate_excerpt(title) == <<"R","e","a","d"," ","a","b","o","u","t"," ">> \o Lower(title)

\* ObsidianFormatter._clean_tag_name(tag_name): ' ' -> '_', TAG_QUOTES ["'] removed,
\* TAG_SPECIAL_CHARS [^\w\-_] removed, then '.' -> '_'
ObsidianFormatter_clean_tag_name(tag_name) ==
    With(Replace(tag_name, <<" ">>, <<"_">>), LAMBDA spaced :
    With(RemoveChars(spaced, {"\"", "'"}), LAMBDA unquoted :
    With(SelectSeq(unquoted, LAMBDA c : c \in WordChars \cup {"-", "_"}), LAMBDA kept :
        Replace(kept, <<".">>, <<"_">>))))

\* The name of one entry of a tag list: tag.get('name', tag.get('id', '')) of a
\* dict, str(tag) of anything else.
TagName(tag) ==
    IF tag.t = "dict" THEN Get(tag.d, "name", Get(tag.d, "id", EmptyStr))
    ELSE Str(PyStr(tag))

\* One entry of ObsidianFormatter.format_tags' loop: what it appends for the
\* entry, as a list of no or one name (or the exception _clean_tag_name raises on
\* a name that is no string).
FormatTag(tag) ==
    With(TagName(tag), LAMBDA tag_name :
        IF ~Truthy(tag_name) THEN << >>
        ELSE IF tag_name.t # "str" THEN <<Raise("AttributeError")>>
        ELSE With(ObsidianFormatter_clean_tag_name(tag_name.s), LAMBDA clean_tag :
                IF Len(clean_tag) > 0 THEN <<Str(clean_tag)>> ELSE << >>))

\* The concatenation of a sequence of sequences.
RECURSIVE Flatten(_, _)
Flatten(seqs, k) ==
    IF k > Len(seqs) THEN << >> ELSE seqs[k] \o Flatten(seqs, k + 1)

\* ObsidianFormatter.format_tags(tags_data): the cleaned names, in order, of the
\* entries whose name is truthy and whose cleaned name is not empty
ObsidianFormatter_format_tags(tags_data) ==
    IF ~Truthy(tags_data) THEN List(<< >>)
    ELSE With([k \in 1..Len(tags_data.l) |-> FormatTag(tags_data.l[k])], LAMBDA each :
         With(Flatten(each, 1), LAMBDA formatted_tags :
            IF IsRaise(FirstRaise(formatted_tags)) THEN FirstRaise(formatted_tags)
            ELSE List(formatted_tags)))

\* One entry of ContentTransformer._extract_tags' loop: the entry's name if truthy
ExtractTag(tag) ==
    With(TagName(tag), LAMBDA tag_name : IF Truthy(tag_name) THEN <<tag_name>> ELSE << >>)

\* ContentTransformer._extract_tags(tags_data): the names, in order, of the
\* entries whose name is truthy
ContentTransformer_extract_tags(tags_data) ==
    IF ~Truthy(tags_data) THEN List(<< >>)
    ELSE With([k \in 1..Len(tags_data.l) |-> ExtractTag(tags_data.l[k])], LAMBDA each :
            List(Flatten(each, 1)))

\* ObsidianFormatter.format_series(series_data)
ObsidianFormatter_format_series(series_data) ==
    IF ~Truthy(series_data) THEN None
    ELSE IF series_data.t = "dict"
         THEN Get(series_data.d, "name", Get(series_data.d, "id", EmptyStr))
    ELSE Str(PyStr(series_data))

\* ContentTransformer._extract_series(series_data)
ContentTransformer_extract_series(series_data) ==
    IF ~Truthy(series_data) THEN None
    ELSE IF series_data.t = "dict"
         THEN Get(series_data.d, "name", Get(series_data.d, "id", EmptyStr))
    ELSE Str(PyStr(series_data))

\* The cover image of both _extract_metadata: enriched_post.get('coverImage',
\* {}).get('url'), else original_post.get('coverImage'), else None.  The .get on
\* a coverImage that is not a dict (None, a str) raises AttributeError.
CoverImageUrl(original_post, enriched_post) ==
    LET cover == Get(enriched_post, "coverImage", Dict(EmptyDict))
    IN IF cover.t # "dict" THEN Raise("AttributeError")
       ELSE IF Truthy(Get(cover.d, "url", None)) THEN cover.d["url"]
       ELSE IF Truthy(Get(original_post, "coverImage", None))
            THEN original_post["coverImage"]
       ELSE None

\* A faulty _get_post_content: the raw post's fields are tried before the
\* enrichment record's.
RawFirst_get_post_content(original_post, enriched_post) ==
    LET content == Get(enriched_post, "content", None)
    IN IF Truthy(Get(original_post, "contentMarkdown", None))
            THEN original_post["contentMarkdown"]
       ELSE IF Truthy(Get(original_post, "content", None))
            THEN original_post["content"]
       ELSE IF Truthy(content) /\ Truthy(Get(content.d, "markdown", None))
            THEN content.d["markdown"]
       ELSE IF Truthy(content) /\ Truthy(Get(content.d, "html", None))
            THEN content.d["html"]
       ELSE EmptyStr

\* ObsidianTransformer._get_post_content(original_post, enriched_post)
ObsidianTransformer_get_post_content(original_post, enriched_post) ==
    LET content == Get(enriched_post, "content", None)
    IN IF Truthy(content) /\ content.t # "dict" THEN Raise("AttributeError")
       ELSE IF Truthy(content) /\ Truthy(Get(content.d, "markdown", None))
            THEN content.d["markdown"]
       ELSE IF Truthy(content) /\ Truthy(Get(content.d, "html", None))
            THEN content.d["html"]
       ELSE IF Truthy(Get(original_post, "contentMarkdown", None))
            THEN original_post["contentMarkdown"]
       ELSE IF Truthy(Get(original_post, "content", None))
            THEN original_post["content"]
       ELSE EmptyStr

\* ContentTransformer._get_post_content(original_post, enriched_post)
ContentTransformer_get_post_content(original_post, enriched_post) ==
    LET content == Get(enriched_post, "content", None)
    IN IF Truthy(content) /\ content.t # "dict" THEN Raise("AttributeError")
       ELSE IF Truthy(content) /\ Truthy(Get(content.d, "markdown", None))
            THEN content.d["markdown"]
       ELSE IF Truthy(content) /\ Truthy(Get(content.d, "html", None))
            THEN content.d["html"]
       ELSE IF Truthy(Get(original_post, "contentMarkdown", None))
            THEN original_post["contentMarkdown"]
       ELSE IF Truthy(Get(original_post, "content", None))
            THEN original_post["content"]
       ELSE EmptyStr

\* --------------------------------------------------------- content cleanup
RAW_START == <<"{","%"," ","r","a","w"," ","%","}">>
RAW_END == <<"{","%"," ","e","n","d","r","a","w"," ","%","}">>

\* The last position of the maximal run of whitespace that starts at position i
\* (i - 1 when s[i] is no whitespace).
SpaceRunEnd(s, i) ==
    IF \E k \in i..Len(s) : s[k] \notin SpaceChars
    THEN (CHOOSE k \in i..Len(s) :
            s[k] \notin SpaceChars /\ \A j \in i..(k - 1) : s[j] \in SpaceChars) - 1
    ELSE Len(s)

\* The first position of the maximal run of whitespace that ends at position i
\* (i + 1 when s[i] is no whitespace).
SpaceRunStart(s, i) ==
    IF \E k \in 1..i : s[k] \notin SpaceChars
    THEN (CHOOSE k \in 1..i :
            s[k] \notin SpaceChars /\ \A j \in (k + 1)..i : s[j] \in SpaceChars) + 1
    ELSE 1

\* RAW_BLOCK_START.sub('', content) from position p on: every '{% raw %}' and the
\* whitespace after it
RECURSIVE RemoveRawStart(_, _)
RemoveRawStart(s, p) ==
    With(FindFrom(s, RAW_START, p), LAMBDA k :
        IF k = 0 THEN SubSeq(s, p, Len(s))
        ELSE SubSeq(s, p, k - 1)
             \o With(SpaceRunEnd(s, k + Len(RAW_START)) + 1,
                     LAMBDA next : RemoveRawStart(s, next)))

\* RAW_BLOCK_END.sub('', content) from position p on: every '{% endraw %}' and the
\* whitespace before it, as far back as p
RECURSIVE RemoveRawEnd(_, _)
RemoveRawEnd(s, p) ==
    With(FindFrom(s, RAW_END, p), LAMBDA k :
        IF k = 0 THEN SubSeq(s, p, Len(s))
        ELSE With(SpaceRunStart(s, k - 1), LAMBDA w :
                SubSeq(s, p, (IF w < p THEN p ELSE w) - 1)
                \o With(k + Len(RAW_END), LAMBDA next : RemoveRawEnd(s, next))))

\* ObsidianTransformer._remove_raw_blocks(content)
ObsidianTransformer_remove_raw_blocks(content) ==
    With(RemoveRawStart(content, 1), LAMBDA started : RemoveRawEnd(started, 1))

\* ObsidianTransformer._remove_template_escaping(content)
ObsidianTransformer_remove_template_escaping(content) == content

\* One image-attribute pattern, (\!\[.*?\]\([^)]+?)\s+ATTR="[^"]*"([^)]*\)), tried
\* with group 1 ending at e: the positions of the closing quote and of the
\* closing parenthesis, 0 when the rest of the pattern does not match there.
AttrClose(s, e, attr) ==
    With(attr \o <<"=", "\"">>, LAMBDA lit :
    With(SpaceRunEnd(s, e + 1), LAMBDA w :
    With(IF w > e /\ OccursAt(s, lit, w + 1)
         THEN FindFrom(s, <<"\"">>, w + 1 + Len(lit)) ELSE 0, LAMBDA quote :
        [quote |-> quote,
         paren |-> IF quote > 0 THEN FindFrom(s, <<")">>, quote + 1) ELSE 0])))

\* The ways the pattern matches at position p: q is where '](' stands, e where
\* group 1 ends.  '.*?' crosses no newline, '[^)]+?' no ')'.
AttrMatches(s, p, attr) ==
    IF ~OccursAt(s, <<"!", "[">>, p) THEN {}
    ELSE {m \in ((p + 2)..Len(s)) \X ((p + 4)..Len(s)) :
            /\ m[2] >= m[1] + 2
            /\ OccursAt(s, <<"]", "(">>, m[1])
            /\ \A k \in (p + 2)..(m[1] - 1) : s[k] # "\n"
            /\ \A k \in (m[1] + 2)..m[2] : s[k] # ")"
            /\ AttrClose(s, m[2], attr).paren > 0}

\* The match the engine takes among them: both quantifiers are lazy, so the least
\* q, and for it the least e.
AttrFirstMatch(ms) ==
    CHOOSE m \in ms : \A n \in ms : m[1] < n[1] \/ (m[1] = n[1] /\ m[2] <= n[2])

\* PATTERN.sub(r'\1\2', content) from position p on: each match, left to right,
\* loses the whitespace, the attribute and its quoted value.
RECURSIVE SubAttrFrom(_, _, _)
SubAttrFrom(s, p, attr) ==
    With({k \in p..Len(s) : AttrMatches(s, k, attr) # {}}, LAMBDA starts :
        IF starts = {} THEN SubSeq(s, p, Len(s))
        ELSE With(CHOOSE k \in starts : \A j \in starts : k <= j, LAMBDA k :
             With(AttrFirstMatch(AttrMatches(s, k, attr)), LAMBDA m :
             With(AttrClose(s, m[2], attr), LAMBDA c :
                SubSeq(s, p, m[2]) \o SubSeq(s, c.quote + 1, c.paren)
                \o With(c.paren + 1, LAMBDA next : SubAttrFrom(s, next, attr))))))

\* ObsidianTransformer._clean_image_urls(content): IMAGE_ALIGN_PATTERN,
\* IMAGE_WIDTH_PATTERN, IMAGE_HEIGHT_PATTERN, one pass each
ObsidianTransformer_clean_image_urls(content) ==
    With(SubAttrFrom(content, 1, <<"a","l","i","g","n">>), LAMBDA aligned :
    With(SubAttrFrom(aligned, 1, <<"w","i","d","t","h">>), LAMBDA widthless :
        SubAttrFrom(widthless, 1, <<"h","e","i","g","h","t">>)))

\* ContentTransformer._clean_image_urls(content)
ContentTransformer_clean_image_urls(content) ==
    With(SubAttrFrom(content, 1, <<"a","l","i","g","n">>), LAMBDA aligned :
    With(SubAttrFrom(aligned, 1, <<"w","i","d","t","h">>), LAMBDA widthless :
        SubAttrFrom(widthless, 1, <<"h","e","i","g","h","t">>)))

\* The number of newlines among s[i..j]
NewlinesIn(s, i, j) == Cardinality({k \in i..j : s[k] = "\n"})

\* EXTRA_WHITESPACE.sub('\n\n', content), the pattern \n\s*\n\s*\n, from position p
\* on: a newline whose run of whitespace holds three newlines or more is
\* replaced, up to the run's last newline, by two newlines.
RECURSIVE CollapseBlankLines(_, _)
CollapseBlankLines(s, p) ==
    With({k \in p..Len(s) : s[k] = "\n" /\ NewlinesIn(s, k, SpaceRunEnd(s, k)) >= 3},
         LAMBDA starts :
        IF starts = {} THEN SubSeq(s, p, Len(s))
        ELSE With(CHOOSE k \in starts : \A j \in starts : k <= j, LAMBDA k :
             With(SpaceRunEnd(s, k), LAMBDA w :
                SubSeq(s, p, k - 1) \o <<"\n", "\n">>
                \o With((CHOOSE e \in k..w :
                            s[e] = "\n" /\ \A j \in (e + 1)..w : s[j] # "\n") + 1,
                        LAMBDA next : CollapseBlankLines(s, next)))))

\* ObsidianTransformer._clean_content_for_obsidian(content)
ObsidianTransformer_clean_content_for_obsidian(content) ==
    IF ~Truthy(content) THEN EmptyStr
    ELSE IF content.t # "str" THEN Raise("TypeError")
    ELSE With(ObsidianTransformer_remove_raw_blocks(content.s), LAMBDA unwrapped :
         With(ObsidianTransformer_remove_template_escaping(unwrapped), LAMBDA unescaped :
         With(ObsidianTransformer_clean_image_urls(unescaped), LAMBDA cleaned :
         With(CollapseBlankLines(cleaned, 1), LAMBDA collapsed :
            Str(Strip(collapsed, SpaceChars))))))

\* ContentTransformer._escape_template_syntax(content)
ContentTransformer_escape_template_syntax(content) ==
    LET has_template_syntax ==
            \/ Contains(content, <<"{","{">>) /\ Contains(content, <<"}","}">>)
            \/ Contains(content, <<"{","%">>) /\ Contains(content, <<"%","}">>)
            \/ Contains(content, <<"{","#">>) /\ Contains(content, <<"#","}">>)
    IN IF has_template_syntax /\ ~Contains(content, RAW_START)
       THEN RAW_START \o <<"\n">> \o content \o <<"\n">> \o RAW_END
       ELSE content

\* ContentTransformer._clean_content(content)
ContentTransformer_clean_content(content) ==
    IF ~Truthy(content) THEN EmptyStr
    ELSE IF content.t # "str" THEN Raise("TypeError")
    ELSE With(ContentTransformer_clean_image_urls(content.s), LAMBDA cleaned :
         With(ContentTransformer_escape_template_syntax(cleaned), LAMBDA escaped :
         With(CollapseBlankLines(escaped, 1), LAMBDA collapsed :
            Str(Strip(collapsed, SpaceChars)))))

\* ------------------------------------------------------- metadata resolvers
\* A faulty slug: the raw post's slug counts only when truthy
\* (... or original_post.get('slug') or self._slugify(title)).
Truthy_extract_metadata_slug(original_post, enriched_post, default_slug) ==
    Or(Or(Get(enriched_post, "slug", None), Get(original_post, "slug", None)),
       default_slug)

\* The slug of ObsidianTransformer._extract_metadata:
\* enriched_post.get('slug') or original_post.get('slug', self._slugify(title)),
\* default_slug being the slug of the title
ObsidianTransformer_extract_metadata_slug(original_post, enriched_post, default_slug) ==
    Or(Get(enriched_post, "slug", None), Get(original_post, "slug", default_slug))

\* The slug of ContentTransformer._extract_metadata
ContentTransformer_extract_metadata_slug(original_post, enriched_post, default_slug) ==
    Or(Get(enriched_post, "slug", None), Get(original_post, "slug", default_slug))

\* ObsidianTransformer._extract_metadata(original_post, enriched_post); `today` is
\* what datetime.date.today() formats to during the call.
ObsidianTransformer_extract_metadata(original_post, enriched_post, today) ==
    With(Or(Get(enriched_post, "title", None),
            Get(original_post, "title", Str(<<"U","n","t","i","t","l","e","d">>))), LAMBDA title :
    LET \* the default of .get('slug', ...) is computed whether or not it is used
        default_slug == IF title.t = "str" THEN Str(ObsidianTransformer_slugify(title.s))
                        ELSE Raise("AttributeError")
        slug == ObsidianTransformer_extract_metadata_slug(original_post, enriched_post,
                                                          default_slug)
        subtitle == Get(original_post, "subtitle", EmptyStr)
        date == ObsidianTransformer_parse_date(
                    Or(Or(Get(enriched_post, "publishedAt", None),
                          Get(original_post, "publishedAt", None)),
                       Get(original_post, "dateAdded", None)), today)
        updated == ObsidianTransformer_parse_date(Get(original_post, "updatedAt", None), today)
        brief == Or(Get(enriched_post, "brief", None), Get(original_post, "brief", None))
        description == IF Truthy(brief) THEN brief
                       ELSE IF title.t = "str"
                            THEN Str(ObsidianTransformer_generate_description(title.s))
                       ELSE Raise("AttributeError")
        status == IF Truthy(Get(original_post, "isActive", Bool(TRUE)))
                  THEN List(<<Str(<<"p","u","b","l","i","s","h","e","d">>)>>) ELSE List(<<Str(<<"d","r","a","f","t">>)>>)
        tags == ObsidianFormatter_format_tags(Get(enriched_post, "tags", List(<< >>)))
        series == ObsidianFormatter_format_series(Get(enriched_post, "series", None))
        cover_image_url == CoverImageUrl(original_post, enriched_post)
        reading_time == Or(Or(Get(enriched_post, "readTimeInMinutes", None),
                              Get(original_post, "readTime", None)),
                           Get(original_post, "readTimeInMinutes", PyInt(5)))
    IN With([t |-> "metadata", title |-> title, subtitle |-> subtitle, slug |-> slug,
             description |-> description, date |-> date, updated |-> updated,
             status |-> status, tags |-> tags, series |-> series,
             cover_image_url |-> cover_image_url, reading_time |-> reading_time,
             default_slug |-> default_slug], LAMBDA m :
        With(FirstRaise(<<m.default_slug, m.description, m.tags, m.series,
                          m.cover_image_url>>), LAMBDA raised :
            IF IsRaise(raised) THEN raised
            ELSE [f \in DOMAIN m \ {"default_slug"} |-> m[f]])))

\* ContentTransformer._extract_metadata(original_post, enriched_post)
ContentTransformer_extract_metadata(original_post, enriched_post, today) ==
    With(Or(Get(enriched_post, "title", None),
            Get(original_post, "title", Str(<<"U","n","t","i","t","l","e","d">>))), LAMBDA title :
    LET default_slug == IF title.t = "str" THEN Str(ContentTransformer_slugify(title.s))
                        ELSE Raise("AttributeError")
        slug == ContentTransformer_extract_metadata_slug(original_post, enriched_post,
                                                         default_slug)
        date == ContentTransformer_parse_date(
                    Or(Or(Get(enriched_post, "publishedAt", None),
                          Get(original_post, "publishedAt", None)),
                       Get(original_post, "dateAdded", None)), today)
        brief == Or(Get(enriched_post, "brief", None), Get(original_post, "brief", None))
        excerpt == IF Truthy(brief) THEN brief
                   ELSE IF title.t = "str"
                        THEN Str(ContentTransformer_generate_excerpt(title.s))
                   ELSE Raise("AttributeError")
        tags == ContentTransformer_extract_tags(Get(enriched_post, "tags", List(<< >>)))
        series == ContentTransformer_extract_series(Get(enriched_post, "series", None))
        cover_image_url == CoverImageUrl(original_post, enriched_post)
        read_time == Or(Get(enriched_post, "readTimeInMinutes", None),
                        Get(original_post, "readTimeInMinutes", PyInt(5)))
    IN With([t |-> "metadata", title |-> title, slug |-> slug, date |-> date,
             excerpt |-> excerpt,
             tags |-> tags, series |-> series, cover_image_url |-> cover_image_url,
             read_time |-> read_time, default_slug |-> default_slug], LAMBDA m :
        With(FirstRaise(<<m.default_slug, m.excerpt, m.tags, m.series,
                          m.cover_image_url>>), LAMBDA raised :
            IF IsRaise(raised) THEN raised
            ELSE [f \in DOMAIN m \ {"default_slug"} |-> m[f]])))

\* ObsidianTransformer.transform_post(original_post, enriched_post): the
\* transformed post, or the exception the call raises
ObsidianTransformer_transform_post(original_post, enriched_post, today) ==
    With(ObsidianTransformer_get_post_content(original_post, enriched_post), LAMBDA content :
    With(IF IsRaise(content) THEN content
         ELSE ObsidianTransformer_clean_content_for_obsidian(content), LAMBDA cleaned_content :
    IF IsRaise(cleaned_content) THEN cleaned_content
    ELSE With(ObsidianTransformer_extract_metadata(original_post, enriched_post, today),
              LAMBDA metadata :
       IF IsRaise(metadata) THEN metadata
       ELSE [t |-> "post",
             title |-> metadata.title, subtitle |-> metadata.subtitle,
             slug |-> metadata.slug, description |-> metadata.description,
             date |-> metadata.date, updated |-> metadata.updated,
             status |-> metadata.status, tags |-> metadata.tags,
             series |-> metadata.series, reading_time |-> metadata.reading_time,
             cover_image |-> metadata.cover_image_url, content |-> cleaned_content])))

\* '/' + slug + '/' of ContentTransformer.transform_post
Permalink(slug) == Str(<<"/">> \o PyStr(slug) \o <<"/">>)

\* ContentTransformer.transform_post(original_post, enriched_post)
ContentTransformer_transform_post(original_post, enriched_post, today) ==
    With(ContentTransformer_get_post_content(original_post, enriched_post), LAMBDA content :
    With(IF IsRaise(content) THEN content
         ELSE ContentTransformer_clean_content(content), LAMBDA cleaned_content :
    IF IsRaise(cleaned_content) THEN cleaned_content
    ELSE With(ContentTransformer_extract_metadata(original_post, enriched_post, today),
              LAMBDA metadata :
       IF IsRaise(metadata) THEN metadata
       ELSE [t |-> "post",
             title |-> metadata.title, slug |-> metadata.slug, date |-> metadata.date,
             excerpt |-> metadata.excerpt, tags |-> metadata.tags,
             series |-> metadata.series, coverImage |-> metadata.cover_image_url,
             readTime |-> metadata.read_time, content |-> cleaned_content,
             layout |-> Str(<<"p","o","s","t">>), permalink |-> Permalink(metadata.slug)])))

\* ------------------------------------------------------------- formatters
\* s.split('\n')
RECURSIVE SplitLines(_)
SplitLines(s) ==
    With(FindFrom(s, <<"\n">>, 1), LAMBDA k :
        IF k = 0 THEN <<s>>
        ELSE <<SubSeq(s, 1, k - 1)>> \o With(Suffix(s, k), LAMBDA rest : SplitLines(rest)))

\* key: "value"
QuotedLine(key, value) == key \o <<":"," ","\"">> \o PyStr(value) \o <<"\"">>

\* key: value
PlainLine(key, value) == key \o <<":"," ">> \o PyStr(value)

\* the lines '  - item' of a list
ItemLines(items) == [i \in 1..Len(items) |-> <<" "," ","-"," ">> \o PyStr(items[i])]

\* the formatter with descriptions of 80 characters counted as long
LongAt80_format_description_yaml(description) ==
    With(Strip(description, SpaceChars), LAMBDA clean_description :
    LET has_newlines == Contains(clean_description, <<"\n">>)
        is_long == Len(clean_description) >= 80
        has_special_chars == \E i \in 1..Len(clean_description) :
                                clean_description[i] \in {"\"", "'", ":", "#"}
    IN IF Len(description) = 0 THEN <<"\"", "\"">>
       ELSE IF has_newlines \/ is_long \/ has_special_chars
            THEN With(SplitLines(clean_description), LAMBDA lines :
                    With(<< <<"|">> >> \o [i \in 1..Len(lines) |-> <<" "," ">> \o lines[i]],
                         LAMBDA block : Join(block, <<"\n">>)))
       ELSE <<"\"">> \o Replace(clean_description, <<"\"">>, <<"\\", "\"">>) \o <<"\"">>)

\* ObsidianFormatter._format_description_yaml(description)
ObsidianFormatter_format_description_yaml(description) ==
    With(Strip(description, SpaceChars), LAMBDA clean_description :
    LET has_newlines == Contains(clean_description, <<"\n">>)
        is_long == Len(clean_description) > 80
        has_special_chars == \E i \in 1..Len(clean_description) :
                                clean_description[i] \in {"\"", "'", ":", "#"}
    IN IF Len(description) = 0 THEN <<"\"", "\"">>
       ELSE IF has_newlines \/ is_long \/ has_special_chars
            THEN With(SplitLines(clean_description), LAMBDA lines :
                    With(<< <<"|">> >> \o [i \in 1..Len(lines) |-> <<" "," ">> \o lines[i]],
                         LAMBDA block : Join(block, <<"\n">>)))
       ELSE <<"\"">> \o Replace(clean_description, <<"\"">>, <<"\\", "\"">>) \o <<"\"">>)

\* ObsidianFormatter.generate_frontmatter_and_content(post): the lines of the
\* frontmatter, an empty line, joined by newlines, then the content
ObsidianFormatter_generate_frontmatter_and_content(post) ==
    With(   << <<"-","-","-">> >>
            \o << QuotedLine(<<"t","i","t","l","e">>, post.title) >>
            \o (IF Truthy(post.subtitle) THEN << QuotedLine(<<"s","u","b","t","i","t","l","e">>, post.subtitle) >>
                ELSE << >>)
            \o (IF Truthy(post.slug) THEN << QuotedLine(<<"s","l","u","g">>, post.slug) >> ELSE << >>)
            \o (IF Truthy(post.description)
                THEN << <<"d","e","s","c","r","i","p","t","i","o","n",":"," ">>
                        \o ObsidianFormatter_format_description_yaml(post.description.s) >>
                ELSE << >>)
            \o (IF Truthy(post.date) THEN << PlainLine(<<"d","a","t","e">>, post.date) >> ELSE << >>)
            \o (IF Truthy(post.updated) THEN << PlainLine(<<"u","p","d","a","t","e","d">>, post.updated) >>
                ELSE << >>)
            \o (IF Truthy(post.status) THEN << <<"s","t","a","t","u","s",":">> >> \o ItemLines(post.status.l)
                ELSE << >>)
            \o (IF Truthy(post.tags) THEN << <<"t","a","g","s",":">> >> \o ItemLines(post.tags.l)
                ELSE << >>)
            \o (IF Truthy(post.series) THEN << QuotedLine(<<"s","e","r","i","e","s">>, post.series) >>
                ELSE << >>)
            \o (IF Truthy(post.reading_time)
                THEN << PlainLine(<<"r","e","a","d","i","n","g","_","t","i","m","e">>, post.reading_time) >> ELSE << >>)
            \o (IF Truthy(post.cover_image)
                THEN << QuotedLine(<<"c","o","v","e","r","_","i","m","a","g","e">>, post.cover_image) >> ELSE << >>)
            \o << <<"-","-","-">> >>
            \o << << >> >>,
         LAMBDA frontmatter_lines : Join(frontmatter_lines, <<"\n">>) \o post.content.s)

\* ObsidianTransformer.generate_obsidian_markdown(post)
ObsidianTransformer_generate_obsidian_markdown(post) ==
    ObsidianFormatter_generate_frontmatter_and_content(post)

\* ContentTransformer._generate_manual_markdown(post)
ContentTransformer_generate_manual_markdown(post) ==
    LET tag_list == With([i \in 1..Len(post.tags.l) |->
                            <<"\"">> \o PyStr(post.tags.l[i]) \o <<"\"">>],
                         LAMBDA quoted : Join(quoted, <<","," ">>))
    IN With(<< <<"-","-","-">> >>
            \o << QuotedLine(<<"t","i","t","l","e">>, post.title) >>
            \o << PlainLine(<<"d","a","t","e">>, post.date) >>
            \o << QuotedLine(<<"p","e","r","m","a","l","i","n","k">>, post.permalink) >>
            \o << QuotedLine(<<"l","a","y","o","u","t">>, post.layout) >>
            \o (IF Truthy(post.excerpt) THEN << QuotedLine(<<"e","x","c","e","r","p","t">>, post.excerpt) >>
                ELSE << >>)
            \o (IF Truthy(post.coverImage)
                THEN << QuotedLine(<<"c","o","v","e","r","I","m","a","g","e">>, post.coverImage) >> ELSE << >>)
            \o (IF Truthy(post.readTime) THEN << PlainLine(<<"r","e","a","d","T","i","m","e">>, post.readTime) >>
                ELSE << >>)
            \o (IF Truthy(post.tags) THEN << <<"t","a","g","s",":"," ","[">> \o tag_list \o <<"]">> >> ELSE << >>)
            \o (IF Truthy(post.series) THEN << QuotedLine(<<"s","e","r","i","e","s">>, post.series) >>
                ELSE << >>)
            \o << <<"-","-","-">> >>
            \o << << >> >>,
         LAMBDA frontmatter_lines : Join(frontmatter_lines, <<"\n">>) \o post.content.s)

\* ---------------------------------------------------------------- enricher
\* HashNodeEnricher._create_fallback_tags(tag_ids)
HashNodeEnricher_create_fallback_tags(tag_ids) ==
    List([i \in 1..Len(tag_ids.l) |->
            Dict([id |-> tag_ids.l[i],
                  name |-> Str(<<"T","a","g","-">> \o Prefix(tag_ids.l[i].s, 8)),
                  slug |-> Str(<<"t","a","g","-">> \o Prefix(tag_ids.l[i].s, 8))])])

\* HashNodeEnricher._create_fallback_series(series_id)
HashNodeEnricher_create_fallback_series(series_id) ==
    IF ~Truthy(series_id) THEN None
    ELSE Dict([id |-> series_id,
               name |-> Str(<<"S","e","r","i","e","s","-">> \o Prefix(series_id.s, 8)),
               slug |-> Str(<<"s","e","r","i","e","s","-">> \o Prefix(series_id.s, 8)),
               description |-> EmptyStr])

\* The record HashNodeEnricher.create_fallback_enrichment builds for one post.
FallbackRecord(post) ==
    [id |-> post["_id"],
     title |-> Get(post, "title", EmptyStr),
     slug |-> Get(post, "slug", EmptyStr),
     brief |-> Get(post, "brief", EmptyStr),
     content |-> Dict([html |-> Get(post, "content", EmptyStr),
                       markdown |-> Get(post, "contentMarkdown",
                                        Get(post, "content", EmptyStr))]),
     tags |-> HashNodeEnricher_create_fallback_tags(Get(post, "tags", List(<< >>))),
     series |-> HashNodeEnricher_create_fallback_series(Get(post, "series", None)),
     coverImage |-> IF Truthy(Get(post, "coverImage", None))
                    THEN Dict([url |-> post["coverImage"]]) ELSE None,
     publishedAt |-> Get(post, "publishedAt", Get(post, "dateAdded", None)),
     readTimeInMinutes |-> Get(post, "readTimeInMinutes", PyInt(5))]

\* HashNodeEnricher.create_fallback_enrichment(posts): post id -> record; a later
\* post with the same id replaces the earlier one's record
HashNodeEnricher_create_fallback_enrichment(posts) ==
    [id \in {posts[i]["_id"] : i \in 1..Len(posts)} |->
        FallbackRecord(posts[CHOOSE i \in 1..Len(posts) :
                                /\ posts[i]["_id"] = id
                                /\ \A j \in (i + 1)..Len(posts) : posts[j]["_id"] # id])]

\* The record HashNodeEnricher._fetch_post_data builds from the API's answer
\* post_data (response['data']['post']).
FetchedRecord(post_data) ==
    [id |-> post_data["id"],
     title |-> post_data["title"],
     slug |-> EmptyStr,
     brief |-> EmptyStr,
     content |-> Dict(EmptyDict),
     tags |-> Get(post_data, "tags", List(<< >>)),
     series |-> Get(post_data, "series", None),
     coverImage |-> Get(post_data, "coverImage", None),
     publication |-> Get(post_data, "publication", None),
     readTimeInMinutes |-> PyInt(5)]

\* ------------------------------------------------------------------ images
\* IMAGE_URL_PATTERN !\[.*?\]\(([^)]+)\) tried at position p: where '](' stands in
\* the match the engine takes (the least such place on the same line that is
\* followed by at least one character other than ')' and then a ')'), or 0.
ImageMatchAt(s, p) ==
    LET ok(q) == /\ OccursAt(s, <<"]", "(">>, q)
                 /\ \A k \in (p + 2)..(q - 1) : s[k] # "\n"
                 /\ FindFrom(s, <<")">>, q + 2) > q + 2
    IN IF OccursAt(s, <<"!", "[">>, p) /\ \E q \in (p + 2)..Len(s) : ok(q)
       THEN CHOOSE q \in (p + 2)..Len(s) : ok(q) /\ \A j \in (p + 2)..(q - 1) : ~ok(j)
       ELSE 0

\* IMAGE_URL_PATTERN.findall(content) from position p on: group 1 of each match
RECURSIVE FindImages(_, _)
FindImages(s, p) ==
    With({k \in p..Len(s) : ImageMatchAt(s, k) > 0}, LAMBDA starts :
        IF starts = {} THEN << >>
        ELSE With(CHOOSE k \in starts : \A j \in starts : k <= j, LAMBDA k :
             With(ImageMatchAt(s, k), LAMBDA q :
             With(FindFrom(s, <<")">>, q + 2), LAMBDA r :
                <<SubSeq(s, q + 2, r - 1)>>
                \o With(r + 1, LAMBDA next : FindImages(s, next))))))

IsRemoteUrl(url) == StartsWith(url, <<"h","t","t","p",":","/","/">>) \/ StartsWith(url, <<"h","t","t","p","s",":","/","/">>)

\* ObsidianFormatter.extract_images_from_content(content): the stripped matches
\* that start with http:// or https://, in order, duplicates kept
ObsidianFormatter_extract_images_from_content(content) ==
    IF Len(content) = 0 THEN << >>
    ELSE With(FindImages(content, 1), LAMBDA matches :
            SelectSeq([i \in 1..Len(matches) |-> Strip(matches[i], SpaceChars)],
                      IsRemoteUrl))

\* The last position of character c in s, 0 when there is none.
LastIndexOf(s, c) ==
    IF \E i \in 1..Len(s) : s[i] = c
    THEN CHOOSE i \in 1..Len(s) : s[i] = c /\ \A j \in (i + 1)..Len(s) : s[j] # c
    ELSE 0

\* The first position from i on of a character of the set, Len(s) + 1 when none.
FirstOf(s, chars, i) ==
    IF \E k \in i..Len(s) : s[k] \in chars
    THEN CHOOSE k \in i..Len(s) : s[k] \in chars /\ \A j \in i..(k - 1) : s[j] \notin chars
    ELSE Len(s) + 1

\* urlparse(url).path of an http(s) URL: what follows the host, up to '?' or '#'
UrlPath(url) ==
    LET host == FindFrom(url, <<":","/","/">>, 1) + 3
        slash == FirstOf(url, {"/", "?", "#"}, host)
        stop == FirstOf(url, {"?", "#"}, host)
    IN SubSeq(url, slash, stop - 1)

\* Path(path).name: the last component, trailing slashes dropped
PathName(path) ==
    With(RStrip(path, {"/"}), LAMBDA trimmed : Suffix(trimmed, LastIndexOf(trimmed, "/")))

VALID_EXTS == {<<".","j","p","g">>, <<".","j","p","e","g">>, <<".","p","n","g">>, <<".","g","i","f">>, <<".","w","e","b","p">>, <<".","s","v","g">>}

\* The file extension ImageHandler._download_image gives the local file.
ImageExt(url) ==
    With(UrlPath(url), LAMBDA path :
    With(PathName(path), LAMBDA original_name :
    With(<<".">> \o Lower(Suffix(original_name, LastIndexOf(original_name, "."))),
         LAMBDA ext :
        IF Contains(original_name, <<".">>) /\ ext \in VALID_EXTS THEN ext ELSE <<".","j","p","g">>)))

\* A file of the image directory: the post's directory images/posts/<slug> and
\* the file's name.
ImagePath(post_slug, filename) == [slug |-> post_slug, name |-> filename]

\* ImageHandler._download_image(url, dest_dir, base_name), `fetched` telling
\* whether the request, if one is made, brings a non-empty body: the local file's
\* name (None when nothing is there) and the image files afterwards.  A file
\* already at the path is returned as it is, whatever URL it came from.
ImageHandler_download_image(url, post_slug, base_name, fetched, files) ==
    With(base_name \o ImageExt(url), LAMBDA filename :
    LET local_path == ImagePath(post_slug, filename)
    IN IF local_path \in DOMAIN files THEN [name |-> Str(filename), files |-> files]
       ELSE IF fetched THEN [name |-> Str(filename), files |-> Put(files, local_path, url)]
       ELSE [name |-> None, files |-> files])

\* '../images/posts/<post_slug>/<name>'
RelativePath(post_slug, name) == <<".",".","/","i","m","a","g","e","s","/","p","o","s","t","s","/">> \o post_slug \o <<"/">> \o name

\* HashNodeToObsidianConverter._download_cover_image_obsidian(cover_url, post_dir,
\* post_slug): the cover reference and the image files afterwards
DownloadCoverImageObsidian(cover_url, post_slug, fetched, files) ==
    IF ~IsRemoteUrl(cover_url) THEN [cover |-> Str(cover_url), files |-> files]
    ELSE With(ImageHandler_download_image(cover_url, post_slug, <<"c","o","v","e","r">>, fetched, files),
              LAMBDA got :
            IF Truthy(got.name)
            THEN [cover |-> Str(RelativePath(post_slug, got.name.s)), files |-> got.files]
            ELSE [cover |-> Str(cover_url), files |-> got.files])

\* The loop of _download_content_images_obsidian from image i on: one download
\* per extracted URL, in order, as image-<i>; each success replaces every
\* occurrence of the URL in the content as updated so far.
RECURSIVE DownloadContentLoop(_, _, _, _, _, _)
DownloadContentLoop(image_urls, i, updated_content, post_slug, fetched, files) ==
    IF i > Len(image_urls) THEN [content |-> updated_content, files |-> files]
    ELSE With(ImageHandler_download_image(image_urls[i], post_slug,
                        <<"i","m","a","g","e","-">> \o IntToStr(i), fetched[i], files), LAMBDA got :
         With(IF Truthy(got.name)
              THEN Replace(updated_content, image_urls[i],
                           RelativePath(post_slug, got.name.s))
              ELSE updated_content, LAMBDA replaced :
         With(i + 1, LAMBDA next :
            DownloadContentLoop(image_urls, next, replaced, post_slug, fetched,
                                got.files))))

\* HashNodeToObsidianConverter._download_content_images_obsidian(content, post_dir,
\* post_slug)
DownloadContentImagesObsidian(content, post_slug, fetched, files) ==
    With(ObsidianFormatter_extract_images_from_content(content), LAMBDA image_urls :
        DownloadContentLoop(image_urls, 1, content, post_slug, fetched, files))

\* A faulty image pass: the updated post is built anew and its tags are not taken over.
Untagged_DownloadPostImagesObsidian(post, post_slug, fetched_cover, fetched, files) ==
    With(IF Truthy(post.cover_image)
         THEN DownloadCoverImageObsidian(post.cover_image.s, post_slug,
                                         fetched_cover, files)
         ELSE [cover |-> post.cover_image, files |-> files], LAMBDA cover :
    With(IF Truthy(post.content)
         THEN DownloadContentImagesObsidian(post.content.s, post_slug,
                                            fetched, cover.files)
         ELSE [content |-> post.content.s, files |-> cover.files], LAMBDA body :
        [post |-> [post EXCEPT !.cover_image = cover.cover,
                               !.content = Str(body.content),
                               !.tags = List(<< >>)],
         files |-> body.files]))

\* HashNodeToObsidianConverter._download_post_images_obsidian(post, post_slug):
\* fetched_cover and fetched[i] are the outcomes of the requests the call may
\* make.  The updated post and the image files afterwards.
DownloadPostImagesObsidian(post, post_slug, fetched_cover, fetched, files) ==
    With(IF Truthy(post.cover_image)
         THEN DownloadCoverImageObsidian(post.cover_image.s, post_slug,
                                         fetched_cover, files)
         ELSE [cover |-> post.cover_image, files |-> files], LAMBDA cover :
    With(IF Truthy(post.content)
         THEN DownloadContentImagesObsidian(post.content.s, post_slug,
                                            fetched, cover.files)
         ELSE [content |-> post.content.s, files |-> cover.files], LAMBDA body :
        [post |-> [post EXCEPT !.cover_image = cover.cover,
                               !.content = Str(body.content)],
         files |-> body.files]))

\* ------------------------------------------------------------------ parser
\* HashNodeParser._validate_post(post, index)
HashNodeParser_validate_post(post) ==
    /\ {"_id", "title", "slug"} \subseteq DOMAIN post
    /\ post["title"].t = "str"
    /\ post["slug"].t = "str"

\* HashNodeParser.load_export(): the exception it raises on the export file, or
\* None.  A file is missing, unparsable, or holds a JSON value.
HashNodeParser_load_export(file) ==
    IF file.kind = "missing" THEN Raise("FileNotFoundError")
    ELSE IF file.kind = "garbled" THEN Raise("ValueError")
    ELSE IF file.data.t # "dict" THEN Raise("ValueError")
    ELSE IF "posts" \notin DOMAIN file.data.d THEN Raise("ValueError")
    ELSE IF file.data.d["posts"].t # "list" THEN Raise("ValueError")
    ELSE None

\* HashNodeParser._extract_data(): the valid posts of the export, in order
HashNodeParser_extract_data(file) ==
    SelectSeq(file.data.d["posts"].l, HashNodeParser_validate_post)

\* HashNodeParser.get_posts(limit) on the loaded posts
HashNodeParser_get_posts(loaded, limit) ==
    IF limit.t = "none" THEN loaded ELSE Prefix(loaded, limit.n)


\* A post of the export that is a JSON object is the function of its keys; a post
\* that is any other JSON value is that value (a record with a field t).
IsJsonObject(post) == "t" \notin DOMAIN post

\* `field in post` over the three required fields: of an object its keys, of a
\* string its substrings, of a list its elements; TypeError on a number, a
\* boolean or null.  Then post.get, which only an object has.
ValidatePost(post) ==
    LET required_fields == <<<<"_","i","d">>, <<"t","i","t","l","e">>, <<"s","l","u","g">>>>
    IN IF IsJsonObject(post) THEN Bool(HashNodeParser_validate_post(post))
       ELSE IF post.t = "str"
            THEN IF \A k \in 1..3 : Contains(post.s, required_fields[k])
                 THEN Raise("AttributeError") ELSE Bool(FALSE)
       ELSE IF post.t = "list"
            THEN IF \A k \in 1..3 : \E j \in 1..Len(post.l) :
                                       post.l[j] = Str(required_fields[k])
                 THEN Raise("AttributeError") ELSE Bool(FALSE)
       ELSE Raise("TypeError")

\* HashNodeParser.__init__(export_path): the fields of the new parser
NewParser == [export_data |-> None, _posts |-> << >>, _publication_info |-> None]

\* HashNodeParser.load_export() on a new parser: the parser's fields afterwards
\* and what the call raised (None if nothing).  _extract_data first takes the
\* export's posts and publication as they are, then validates post by post.
HashNodeParser_load_export_on(file) ==
    With(HashNodeParser_load_export(file), LAMBDA raised :
        IF IsRaise(raised)
        THEN [parser |-> IF file.kind = "json"
                         THEN [NewParser EXCEPT !.export_data = file.data]
                         ELSE NewParser,
              raised |-> raised]
        ELSE With(file.data.d["posts"].l, LAMBDA all_posts :
             With([k \in 1..Len(all_posts) |-> ValidatePost(all_posts[k])], LAMBDA checks :
             With(Get(file.data.d, "publication", Dict(EmptyDict)), LAMBDA publication :
                IF IsRaise(FirstRaise(checks))
                THEN [parser |-> [export_data |-> file.data, _posts |-> all_posts,
                                  _publication_info |-> publication],
                      raised |-> FirstRaise(checks)]
                ELSE [parser |-> [export_data |-> file.data,
                                  _posts |-> HashNodeParser_extract_data(file),
                                  _publication_info |-> publication],
                      raised |-> None]))))

\* post['_id'] of an element of _posts
PostId(post) ==
    IF ~IsJsonObject(post) THEN Raise("TypeError")
    ELSE IF "_id" \notin DOMAIN post THEN Raise("KeyError")
    ELSE post["_id"]

\* [post['_id'] for post in some_posts]
PostIds(some_posts) ==
    With([k \in 1..Len(some_posts) |-> PostId(some_posts[k])], LAMBDA ids :
        IF IsRaise(FirstRaise(ids)) THEN FirstRaise(ids) ELSE List(ids))

\* HashNodeParser.get_post_ids(limit).  The parser's _posts is a list from
\* __init__ on, never None, so the test `self._posts is None` of get_posts, of
\* get_summary, of get_all_tags and of get_all_series is never true.
HashNodeParser_get_post_ids(p, limit) == PostIds(HashNodeParser_get_posts(p._posts, limit))

\* HashNodeParser.get_publication_info()
HashNodeParser_get_publication_info(p) ==
    IF p._publication_info = None THEN Raise("RuntimeError") ELSE p._publication_info

\* HashNodeParser.get_summary(): the ids of the first five posts are taken
\* first, then the publication's fields are read
HashNodeParser_get_summary(p) ==
    With(PostIds(Prefix(p._posts, 5)), LAMBDA post_ids :
        IF IsRaise(post_ids) THEN post_ids
        ELSE IF p._publication_info.t # "dict" THEN Raise("AttributeError")
        ELSE Dict([total_posts |-> PyInt(Len(p._posts)),
                   publication_id |-> Get(p._publication_info.d, "_id", Str(<<"u","n","k","n","o","w","n">>)),
                   publication_title |-> Get(p._publication_info.d, "title", Str(<<"U","n","k","n","o","w","n">>)),
                   post_ids |-> post_ids,
                   has_more_posts |-> Bool(Len(p._posts) > 5)]))

\* A Python set of values.
PySet(S) == [t |-> "set", items |-> S]

\* What get_all_tags takes of a post: the elements of its 'tags' list.
\* post.get is what only an object has.
PostTags(post) ==
    IF ~IsJsonObject(post) THEN Raise("AttributeError")
    ELSE With(Get(post, "tags", List(<< >>)), LAMBDA tags :
            IF tags.t = "list" THEN PySet({tags.l[k] : k \in 1..Len(tags.l)})
            ELSE PySet({}))

\* What get_all_series takes of a post: its 'series' if a non-empty string
PostSeries(post) ==
    IF ~IsJsonObject(post) THEN Raise("AttributeError")
    ELSE With(Get(post, "series", None), LAMBDA series :
            IF Truthy(series) /\ series.t = "str" THEN PySet({series}) ELSE PySet({}))

\* The set a collecting method has at its end, or what it raised on the way.
Collected(taken) ==
    IF IsRaise(FirstRaise(taken)) THEN FirstRaise(taken)
    ELSE PySet(UNION {taken[k].items : k \in 1..Len(taken)})

\* HashNodeParser.get_all_tags(), as the set it makes a list of
HashNodeParser_get_all_tags(p) ==
    Collected([k \in 1..Len(p._posts) |-> PostTags(p._posts[k])])

\* HashNodeParser.get_all_series(), as the set it makes a list of
HashNodeParser_get_all_series(p) ==
    Collected([k \in 1..Len(p._posts) |-> PostSeries(p._posts[k])])

\* list(a_set): the elements in an order the set's hashing decides
ListsOf(collected) ==
    IF IsRaise(collected) THEN {collected}
    ELSE {List(l) : l \in {s \in [1..Cardinality(collected.items) -> collected.items] :
                      \A a, b \in 1..Cardinality(collected.items) : a # b => s[a] # s[b]}}
\* --------------------------------------------------------- the run's inputs
\* The clock: what datetime.date.today() formats to.
Today == <<"2","0","2","6","-","1","1","-","0","4">>

Url1 == <<"h","t","t","p","s",":","/","/","c","d","n",".","e","x","a","m","p","l","e",".","c","o","m","/","a",".","p","n","g">>
Url2 == <<"h","t","t","p","s",":","/","/","c","d","n",".","e","x","a","m","p","l","e",".","c","o","m","/","b","/","a",".","p","n","g","?","x","=","1">>

\* Raw posts of an export.
PostHello ==
    [_id |-> Str(<<"1">>), title |-> Str(<<"H","e","l","l","o"," ","W","o","r","l","d">>), slug |-> Str(<<"h","e","l","l","o","-","w","o","r","l","d">>),
     content |-> Str(<<"#"," ","H","i">>), tags |-> List(<<Str(<<"t","1">>)>>)]

PostCover ==
    [_id |-> Str(<<"2">>), title |-> Str(<<"N","e","x","t",".","j","s"," ","T","i","p","s">>), slug |-> Str(<<"t","i","p","s">>),
     contentMarkdown |-> Str(<<"!","[","a","]","(">> \o Url1 \o <<" ","a","l","i","g","n","=","\"","c","e","n","t","e","r","\"",")","\n","\n","\n","\n","x">>),
     brief |-> Str(<<"T","i","p","s",":"," ","o","n","e">>),
     coverImage |-> Str(Url2),
     tags |-> List(<<Str(<<"0","1","2","3","4","5","6","7","8","9","a","b">>), Str(<<"t","1">>)>>),
     series |-> Str(<<"s","1">>),
     dateAdded |-> Str(<<"2","0","2","3","-","0","5","-","0","1","T","1","0",":","0","0",":","0","0",".","0","0","0","Z">>),
     isActive |-> Bool(TRUE),
     readTimeInMinutes |-> PyInt(3)]

PostDraft ==
    [_id |-> Str(<<"3">>), title |-> Str(<<"D","r","a","f","t">>), slug |-> Str(<<"t","i","p","s">>),
     content |-> Str(<<"{","%"," ","r","a","w"," ","%","}","\n","!","[","b","]","(">> \o Url1 \o <<")"," ","!","[","c","]","(">> \o Url1 \o <<")","\n","{","%"," ","e","n","d","r","a","w"," ","%","}">>),
     coverImage |-> Str(Url1),
     isActive |-> Bool(FALSE),
     publishedAt |-> Str(<<"2","0","2","4","-","0","2","-","2","9">>)]

\* Posts the loader drops: no slug; a title that is no string.
PostNoSlug == [_id |-> Str(<<"4">>), title |-> Str(<<"N","o"," ","s","l","u","g">>)]
PostBadTitle == [_id |-> Str(<<"5">>), title |-> PyInt(7), slug |-> Str(<<"s","e","v","e","n">>)]

\* Another post under the slug of PostHello.
PostTwin ==
    [_id |-> Str(<<"6">>), title |-> Str(<<"H","e","l","l","o"," ","A","g","a","i","n">>), slug |-> Str(<<"h","e","l","l","o","-","w","o","r","l","d">>),
     content |-> Str(<<"A","g","a","i","n">>)]

\* A post with two images, the URL of the first a prefix of the second's.
PostPair ==
    [_id |-> Str(<<"7">>), title |-> Str(<<"P","a","i","r">>), slug |-> Str(<<"p","a","i","r">>),
     content |-> Str(<<"!","[","i","]","(">> \o Url1 \o <<")"," ","!","[","j","]","(">> \o Url1 \o <<"?","w","=","2",")">>)]

RawPostPool == {PostHello, PostCover, PostDraft, PostNoSlug, PostBadTitle}

RECURSIVE SeqsUpTo(_, _)
\* The sequences of at most n elements of S.
SeqsUpTo(S, n) ==
    IF n = 0 THEN {<< >>}
    ELSE SeqsUpTo(S, n - 1) \cup {Append(s, x) : s \in SeqsUpTo(S, n - 1), x \in S}

\* The export files a run may be given.
ExportFiles ==
    {[kind |-> "missing"], [kind |-> "garbled"],
     [kind |-> "json", data |-> List(<< >>)],
     [kind |-> "json", data |-> Dict(EmptyDict)],
     [kind |-> "json", data |-> Dict([posts |-> Str(<<"x">>)])],
     [kind |-> "json", data |-> Dict([posts |-> List(<<PostHello, PyInt(7)>>)])],
     [kind |-> "json", data |-> Dict([posts |-> List(<<PostHello, PostTwin>>)])],
     [kind |-> "json", data |-> Dict([posts |-> List(<<PostPair>>)])]}
    \cup {[kind |-> "json", data |-> Dict([posts |-> List(ps)])] :
            ps \in SeqsUpTo(RawPostPool, MaxPosts)}

\* The command line: --skip-enrichment, an API key (option or environment),
\* --skip-images, --dry-run, --limit.
Options ==
    [skip_enrichment : BOOLEAN, api_key : BOOLEAN, skip_images : BOOLEAN,
     dry_run : BOOLEAN, limit : {None, PyInt(1)}]

\* What the API may answer for a post (response['data']['post']): nothing (a
\* failed request, errors, no such post), or the post's data with and without
\* cover image, series and tags.
ApiAnswers(post) ==
    {None,
     [id |-> post["_id"], title |-> post["title"], tags |-> List(<< >>),
      series |-> None, coverImage |-> None],
     [id |-> post["_id"], title |-> post["title"],
      tags |-> List(<<Dict([id |-> Str(<<"t","1">>), name |-> Str(<<"N","e","x","t",".","j","s">>),
                            slug |-> Str(<<"n","e","x","t","j","s">>)])>>),
      series |-> Dict([id |-> Str(<<"s","1">>), name |-> Str(<<"M","y"," ","S","e","r","i","e","s">>)]),
      coverImage |-> Dict([url |-> Str(Url1)])]}

\* ------------------------------------------------------------------ state
VARIABLES
    export_file,        \* the export file the run is given
    parser,             \* the HashNodeParser's fields
    opts,               \* the command line's options
    today,              \* what datetime.date.today() formats to
    pc,                 \* where HashNodeToObsidianConverter.convert stands
    posts,              \* parser.get_posts(limit): the posts of the run
    enriched_data,      \* post id -> enrichment record
    i,                  \* the index of the loop in progress
    attempt,            \* the last transform_post call: its arguments and outcome
    transformed_posts,  \* the list convert builds in phase 3, replaced in phase 4
    updated_posts,      \* the list _process_images_for_obsidian builds
    dirs,               \* directories created under the output directory
    image_files,        \* image file -> the URL its bytes were fetched from
    post_files,         \* post file -> the document written to it
    error,              \* the exception that ended the run, None if none
    exit_status,        \* the process's exit status, None while it runs
    original_post,      \* a resolver call's raw post
    enriched_post,      \* a resolver call's enrichment record
    result,             \* what the two dialects make of them
    call                \* a text function's call: its argument, its successive results

run_vars == <<export_file, parser, opts, pc, posts, enriched_data, i, attempt,
              transformed_posts, updated_posts, dirs, image_files, post_files,
              error, exit_status>>
call_vars == <<original_post, enriched_post, result, call>>
vars == <<run_vars, call_vars, today>>

NoAttempt == [t |-> "none"]
NoCall == [t |-> "none"]

\* HashNodeToObsidianConverter.__init__ and the arguments of convert
Init ==
    /\ export_file \in ExportFiles
    /\ parser = NewParser
    /\ opts \in Options
    /\ today = Today
    /\ pc = "parse"
    /\ posts = << >>
    /\ enriched_data = EmptyDict
    /\ i = 0
    /\ attempt = NoAttempt
    /\ transformed_posts = << >>
    /\ updated_posts = << >>
    /\ dirs = {}
    /\ image_files = EmptyDict
    /\ post_files = EmptyDict
    /\ error = None
    /\ exit_status = None
    /\ original_post = EmptyDict
    /\ enriched_post = EmptyDict
    /\ result = EmptyDict
    /\ call = NoCall

\* A faulty except clause: the exception is printed and the process exits with 0.
Silent_Abort(exc) ==
    /\ pc' = "failed"
    /\ error' = exc
    /\ exit_status' = PyInt(0)

\* cli's except clause: the exception is printed and the process exits with 1
Abort(exc) ==
    /\ pc' = "failed"
    /\ error' = exc
    /\ exit_status' = PyInt(1)

\* Phase 1: parser.load_export(), parser.get_summary(), parser.get_posts(limit)
ParseExport ==
    /\ pc = "parse"
    /\ \E loaded \in {HashNodeParser_load_export_on(export_file)} :
          /\ parser' = loaded.parser
          /\ IF IsRaise(loaded.raised)
             THEN Abort(loaded.raised) /\ UNCHANGED posts
             ELSE IF IsRaise(HashNodeParser_get_summary(loaded.parser))
             THEN Abort(HashNodeParser_get_summary(loaded.parser)) /\ UNCHANGED posts
             ELSE /\ posts' = HashNodeParser_get_posts(loaded.parser._posts, opts.limit)
                  /\ pc' = "enrich"
                  /\ UNCHANGED <<error, exit_status>>
    /\ UNCHANGED <<export_file, opts, enriched_data, i, attempt, transformed_posts,
                   updated_posts, dirs, image_files, post_files, call_vars, today>>

\* Phase 2 with --skip-enrichment or without an API key
FallbackEnrichment ==
    /\ pc = "enrich"
    /\ opts.skip_enrichment \/ ~opts.api_key
    /\ enriched_data' = HashNodeEnricher_create_fallback_enrichment(posts)
    /\ pc' = "transform"
    /\ i' = 1
    /\ UNCHANGED <<export_file, parser, opts, posts, attempt, transformed_posts, updated_posts,
                   dirs, image_files, post_files, error, exit_status, call_vars, today>>

\* HashNodeEnricher.enrich_posts(post_ids), answers[k] being what the API answers
\* for the k-th post: a record for each post the API gave data for
HashNodeEnricher_enrich_posts(answers) ==
    LET got == {k \in 1..Len(posts) : answers[k] # None}
    IN [id \in {posts[k]["_id"] : k \in got} |->
           FetchedRecord(answers[CHOOSE k \in got :
                                    /\ posts[k]["_id"] = id
                                    /\ \A j \in got : posts[j]["_id"] = id => j <= k])]

\* Phase 2 with an API key
ApiEnrichment ==
    /\ pc = "enrich"
    /\ ~opts.skip_enrichment /\ opts.api_key
    /\ \E answers \in [1..Len(posts) -> UNION {ApiAnswers(posts[k]) : k \in 1..Len(posts)}] :
          /\ \A k \in 1..Len(posts) : answers[k] \in ApiAnswers(posts[k])
          /\ enriched_data' = HashNodeEnricher_enrich_posts(answers)
    /\ pc' = "transform"
    /\ i' = 1
    /\ UNCHANGED <<export_file, parser, opts, posts, attempt, transformed_posts, updated_posts,
                   dirs, image_files, post_files, error, exit_status, call_vars, today>>

\* Phase 3, one pass of the loop: a post without enrichment record is skipped
SkipPost ==
    /\ pc = "transform"
    /\ i <= Len(posts)
    /\ DOMAIN Get(enriched_data, posts[i]["_id"], EmptyDict) = {}
    /\ i' = i + 1
    /\ UNCHANGED <<export_file, parser, opts, pc, posts, enriched_data, attempt,
                   transformed_posts, updated_posts, dirs, image_files, post_files,
                   error, exit_status, call_vars, today>>

\* Phase 3, one pass of the loop: transform_post; what it raises ends the run
TransformPost ==
    /\ pc = "transform"
    /\ i <= Len(posts)
    /\ DOMAIN Get(enriched_data, posts[i]["_id"], EmptyDict) # {}
    /\ \E record \in {enriched_data[posts[i]["_id"]]} :
       \E transformed_post \in {ObsidianTransformer_transform_post(posts[i], record, today)} :
          /\ attempt' = [t |-> "call", original_post |-> posts[i],
                         enriched_post |-> record, out |-> transformed_post]
          /\ IF IsRaise(transformed_post)
             THEN Abort(transformed_post) /\ UNCHANGED <<i, transformed_posts>>
             ELSE /\ transformed_posts' = Append(transformed_posts, transformed_post)
                  /\ i' = i + 1
                  /\ UNCHANGED <<pc, error, exit_status>>
    /\ UNCHANGED <<export_file, parser, opts, posts, enriched_data, updated_posts, dirs,
                   image_files, post_files, call_vars, today>>

\* The end of phase 3
TransformDone ==
    /\ pc = "transform"
    /\ i > Len(posts)
    /\ pc' = "images"
    /\ i' = 1
    /\ updated_posts' = << >>
    /\ UNCHANGED <<export_file, parser, opts, posts, enriched_data, attempt, transformed_posts,
                   dirs, image_files, post_files, error, exit_status, call_vars, today>>

\* Phase 4 with --skip-images
SkipImages ==
    /\ pc = "images"
    /\ opts.skip_images
    /\ pc' = "generate"
    /\ UNCHANGED <<export_file, parser, opts, posts, enriched_data, i, attempt,
                   transformed_posts, updated_posts, dirs, image_files, post_files,
                   error, exit_status, call_vars, today>>

\* Phase 4, one pass of the loop of _process_images_for_obsidian: the post's image
\* directory is made, its cover and content images are requested
ProcessPostImages ==
    /\ pc = "images"
    /\ ~opts.skip_images
    /\ i <= Len(transformed_posts)
    /\ \E post \in {transformed_posts[i]} :
       \E n \in {Len(ObsidianFormatter_extract_images_from_content(post.content.s))} :
       \E fetched_cover \in BOOLEAN, fetched \in [1..n -> BOOLEAN] :
          \E got \in {DownloadPostImagesObsidian(post, post.slug.s, fetched_cover,
                                                 fetched, image_files)} :
                /\ updated_posts' = Append(updated_posts, got.post)
                /\ image_files' = got.files
                /\ dirs' = dirs \cup {<<"images", "posts", post.slug.s>>}
    /\ i' = i + 1
    /\ UNCHANGED <<export_file, parser, opts, pc, posts, enriched_data, attempt,
                   transformed_posts, post_files, error, exit_status, call_vars, today>>

\* The end of phase 4: convert takes the updated posts
ImagesDone ==
    /\ pc = "images"
    /\ ~opts.skip_images
    /\ i > Len(transformed_posts)
    /\ transformed_posts' = updated_posts
    /\ pc' = "generate"
    /\ UNCHANGED <<export_file, parser, opts, posts, enriched_data, i, attempt, updated_posts,
                   dirs, image_files, post_files, error, exit_status, call_vars, today>>

\* A faulty post file: the status is not looked at, every document goes to posts/.
AllPublished_PostFile(post) == [dir |-> "posts", name |-> PyStr(post.slug) \o <<".","m","d">>]

\* The file _generate_files writes a post to: drafts/<slug>.md for a draft,
\* posts/<slug>.md otherwise
PostFile(post) ==
    [dir |-> IF \E k \in 1..Len(post.status.l) : post.status.l[k] = Str(<<"d","r","a","f","t">>)
             THEN "drafts" ELSE "posts",
     name |-> PyStr(post.slug) \o <<".","m","d">>]

\* The loop of _generate_files from post k on: each document is written to its
\* file, replacing what the file held.
RECURSIVE WritePosts(_, _, _)
WritePosts(ps, k, files) ==
    IF k > Len(ps) THEN files
    ELSE With(Put(files, PostFile(ps[k]),
                  ObsidianTransformer_generate_obsidian_markdown(ps[k])), LAMBDA written :
         With(k + 1, LAMBDA next : WritePosts(ps, next, written)))

\* Phase 5: _generate_files(transformed_posts, output_dir), then the summary
GenerateFiles ==
    /\ pc = "generate"
    /\ ~opts.dry_run
    /\ dirs' = dirs \cup {<<"posts">>, <<"drafts">>, <<"templates">>, <<"images", "posts">>}
    /\ post_files' = WritePosts(transformed_posts, 1, post_files)
    /\ pc' = "done"
    /\ exit_status' = PyInt(0)
    /\ UNCHANGED <<export_file, parser, opts, posts, enriched_data, i, attempt,
                   transformed_posts, updated_posts, image_files, error, call_vars, today>>

\* Phase 5 with --dry-run: _show_dry_run_output prints, nothing is written
DryRun ==
    /\ pc = "generate"
    /\ opts.dry_run
    /\ pc' = "done"
    /\ exit_status' = PyInt(0)
    /\ UNCHANGED <<export_file, parser, opts, posts, enriched_data, i, attempt,
                   transformed_posts, updated_posts, dirs, image_files, post_files,
                   error, call_vars, today>>

Next ==
    \/ ParseExport
    \/ FallbackEnrichment
    \/ ApiEnrichment
    \/ SkipPost
    \/ TransformPost
    \/ TransformDone
    \/ SkipImages
    \/ ProcessPostImages
    \/ ImagesDone
    \/ GenerateFiles
    \/ DryRun

\* One run of the command line tool.
Spec == Init /\ [][Next]_vars


\* ------------------------------------------------- the resolvers, call by call
\* d with the fields of e added, e's value taken where both have the field.
Merge(d, e) == [k \in DOMAIN d \cup DOMAIN e |-> IF k \in DOMAIN e THEN e[k] ELSE d[k]]

\* The dicts that leave the field out or give it one of the values.
Opt(key, values) == {EmptyDict} \cup {[k \in {key} |-> v] : v \in values}

\* All merges of one member of each set.
Merges(D, E) == {Merge(d, e) : d \in D, e \in E}

\* The required fields of a raw post.
BaseRaw == [_id |-> Str(<<"1">>), title |-> Str(<<"H","e","l","l","o",","," ","W","o","r","l","d","!">>), slug |-> Str(<<"h","e","l","l","o">>)]

\* Inputs that differ in where the content is.
ContentInputs ==
    [original_post :
        Merges(Merges({BaseRaw}, Opt("contentMarkdown", {EmptyStr, Str(<<"#"," ","R","a","w"," ","m","d">>)})),
               Opt("content", {EmptyStr, Str(<<"<","p",">","r","a","w","<","/","p",">">>)})),
     enriched_post :
        Opt("content", {Dict(EmptyDict),
                        Dict([markdown |-> Str(<<"#"," ","M","d">>)]),
                        Dict([html |-> Str(<<"<","p",">","h","<","/","p",">">>)]),
                        Dict([markdown |-> EmptyStr, html |-> Str(<<"<","p",">","h","<","/","p",">">>)]),
                        Dict([markdown |-> Str(<<"#"," ","M","d">>), html |-> Str(<<"<","p",">","h","<","/","p",">">>)]),
                        Dict([markdown |-> None, html |-> EmptyStr])})]

\* Inputs that differ in title and slug.
SlugInputs ==
    [original_post :
        Merges(Merges({[_id |-> Str(<<"1">>)]},
                      Opt("title", {Str(<<"H","e","l","l","o",","," ","W","o","r","l","d","!">>), Str(<<" "," ","A"," ","-","-"," ","b","_","c"," "," ">>), EmptyStr})),
               Opt("slug", {EmptyStr, Str(<<"M","y"," ","S","l","u","g">>), None})),
     enriched_post :
        Merges(Opt("slug", {EmptyStr, Str(<<"e","-","s","l","u","g">>)}), Opt("title", {Str(<<"E"," ","T","i","t","l","e">>)}))]

\* Inputs that differ in the cover image.
CoverInputs ==
    [original_post : Merges({BaseRaw}, Opt("coverImage", {Str(Url2), EmptyStr})),
     enriched_post :
        Opt("coverImage", {None, Dict(EmptyDict), Dict([url |-> Str(Url1)]),
                           Dict([url |-> None]), Dict([url |-> EmptyStr])})]

\* The entries a tag list may hold: resolved objects with and without a name,
\* bare ids.
TagPool ==
    {Dict([id |-> Str(<<"t","1">>), name |-> Str(<<"W","e","b"," ","D","e","v">>), slug |-> Str(<<"w","e","b","-","d","e","v">>)]),
     Dict([id |-> Str(<<"t","2">>), slug |-> Str(<<"t","-","2">>)]),
     Dict([id |-> Str(<<"t","3">>), name |-> EmptyStr]),
     Dict([id |-> Str(<<"t","4">>), name |-> None]),
     Str(<<"t","5">>)}

\* Inputs that differ in the tags, of at most MaxTags entries.
TagInputs ==
    [original_post : Merges({BaseRaw}, Opt("tags", {List(<<Str(<<"t","1">>), Str(<<"t","2">>)>>)})),
     enriched_post : Opt("tags", {List(s) : s \in SeqsUpTo(TagPool, MaxTags)})]

\* Tag names as the API gives them.
TagNamePool ==
    {<<"N","e","x","t",".","j","s">>, <<"W","e","b"," ","D","e","v">>, <<"C","+","+">>, <<"i","t","'","s"," ","\"","q","\"">>, <<"n","o","d","e","-","j","s">>, <<"a","_","b">>, <<"!","!","!">>, <<"v","1",".","2">>}

\* Inputs that differ in the name of the one tag.
TagNameInputs ==
    [original_post : {BaseRaw},
     enriched_post : {[tags |-> List(<<Dict([id |-> Str(<<"t","1">>), name |-> Str(n)])>>)] :
                        n \in TagNamePool}]

\* Inputs that differ in the series.
SeriesInputs ==
    [original_post : Merges({BaseRaw}, Opt("series", {Str(<<"s","1">>)})),
     enriched_post :
        Opt("series", {None,
                       Dict([id |-> Str(<<"s","2">>), name |-> Str(<<"M","y"," ","S","e","r","i","e","s">>)]),
                       Dict([id |-> Str(<<"s","3">>)]),
                       Str(<<"s","4">>)})]

\* Date strings as exports carry them, and values that are no dates.
DatePool ==
    {Str(<<"2","0","2","3","-","0","5","-","0","1","T","1","0",":","0","0",":","0","0",".","0","0","0","Z">>), Str(<<"2","0","2","4","-","0","2","-","2","9">>), Str(<<"2","0","2","3","-","0","5","-","0","1"," ","1","0",":","0","0",":","0","0","Z">>),
     Str(<<"2","0","2","3","0","5","0","1","T","1","0","0","0","0","0","Z">>), Str(<<"2","0","2","3","-","0","2","-","3","0">>), Str(<<"T","u","e",","," ","0","2"," ","M","a","y"," ","2","0","2","3"," ","1","0",":","0","0",":","0","0"," ","G","M","T">>), EmptyStr, None}

\* Inputs that differ in the dates.
DateInputs ==
    [original_post :
        Merges(Merges(Merges({BaseRaw}, Opt("publishedAt", DatePool)),
                      Opt("dateAdded", {Str(<<"2","0","2","2","-","1","2","-","3","1","T","2","3",":","5","9",":","5","9",".","0","0","0","Z">>), EmptyStr})),
               Opt("updatedAt", {Str(<<"2","0","2","3","-","0","6","-","1","5","T","0","8",":","0","0",":","0","0",".","0","0","0","Z">>), Str(<<"2","0","2","3","-","0","6","-","1","5">>)})),
     enriched_post :
        Opt("publishedAt", {Str(<<"2","0","2","1","-","0","1","-","0","2","T","0","3",":","0","4",":","0","5",".","0","0","0","Z">>), Str(<<"2","0","2","1","-","0","1","-","0","2">>), None})]

\* Inputs that differ in the reading time.
ReadTimeInputs ==
    [original_post :
        Merges(Merges({BaseRaw}, Opt("readTimeInMinutes", {PyInt(3), PyInt(0), None})),
               Opt("readTime", {PyInt(7), PyInt(0)})),
     enriched_post : Opt("readTimeInMinutes", {PyInt(9), PyInt(0), None})]

\* The posts of the pool that the loader keeps.
ValidPosts == {post \in RawPostPool : HashNodeParser_validate_post(post)}

\* The records the run's second phase gives a post: fetched, fallback, none.
PipelineRecords(post) ==
    {FallbackRecord(post), EmptyDict}
    \cup {FetchedRecord(answer) : answer \in ApiAnswers(post) \ {None}}

\* Inputs as the pipeline pairs them.
PipelineInputs ==
    UNION {[original_post : {post}, enriched_post : PipelineRecords(post)] :
            post \in ValidPosts}

ResolverInputs ==
    ContentInputs \cup SlugInputs \cup CoverInputs \cup TagInputs \cup TagNameInputs
    \cup SeriesInputs
    \cup DateInputs \cup ReadTimeInputs \cup PipelineInputs

\* A transformer of each dialect and the arguments of the calls to come.
InitResolve ==
    /\ \E input \in ResolverInputs :
          /\ original_post = input.original_post
          /\ enriched_post = input.enriched_post
    /\ result = [obsidian |-> NoCall, eleventy |-> NoCall]
    /\ call = NoCall
    /\ today = Today
    /\ pc = "resolve"
    /\ export_file = [kind |-> "missing"]
    /\ parser = NewParser
    /\ opts = [skip_enrichment |-> TRUE, api_key |-> FALSE, skip_images |-> TRUE,
               dry_run |-> TRUE, limit |-> None]
    /\ posts = << >>
    /\ enriched_data = EmptyDict
    /\ i = 0
    /\ attempt = NoAttempt
    /\ transformed_posts = << >>
    /\ updated_posts = << >>
    /\ dirs = {}
    /\ image_files = EmptyDict
    /\ post_files = EmptyDict
    /\ error = None
    /\ exit_status = None

\* ObsidianTransformer.transform_post(original_post, enriched_post): the content
\* it extracts, the metadata it resolves, the post it returns
ObsidianTransformPost ==
    /\ pc = "resolve"
    /\ result.obsidian = NoCall
    /\ result' = [result EXCEPT !.obsidian =
          [t |-> "call",
           content |-> ObsidianTransformer_get_post_content(original_post, enriched_post),
           metadata |-> ObsidianTransformer_extract_metadata(original_post, enriched_post,
                                                             today),
           post |-> ObsidianTransformer_transform_post(original_post, enriched_post,
                                                       today)]]
    /\ UNCHANGED <<run_vars, original_post, enriched_post, call, today>>

\* ContentTransformer.transform_post(original_post, enriched_post)
ContentTransformPost ==
    /\ pc = "resolve"
    /\ result.eleventy = NoCall
    /\ result' = [result EXCEPT !.eleventy =
          [t |-> "call",
           content |-> ContentTransformer_get_post_content(original_post, enriched_post),
           metadata |-> ContentTransformer_extract_metadata(original_post, enriched_post,
                                                            today),
           post |-> ContentTransformer_transform_post(original_post, enriched_post,
                                                      today)]]
    /\ UNCHANGED <<run_vars, original_post, enriched_post, call, today>>

NextResolve == ObsidianTransformPost \/ ContentTransformPost

\* The two transformers applied to one raw post and one enrichment record.
SpecResolve == InitResolve /\ [][NextResolve]_vars

\* ================================================================ properties
\* The dialects whose transformer has been called in this state.
Called == {d \in {"obsidian", "eleventy"} : result[d].t = "call"}

\* The dialects whose call resolved the metadata (raised nothing).
Resolved == {d \in Called : result[d].metadata.t = "metadata"}

\* The first truthy value of a sequence, the default when none is truthy.
FirstTruthy(vs, default) ==
    IF \E k \in 1..Len(vs) : Truthy(vs[k])
    THEN vs[CHOOSE k \in 1..Len(vs) : Truthy(vs[k]) /\ \A j \in 1..(k - 1) : ~Truthy(vs[j])]
    ELSE default

\* d[outer][inner] of a dict of dicts, None where either is missing.
Nested(d, outer, inner) ==
    IF outer \in DOMAIN d /\ d[outer].t = "dict" THEN Get(d[outer].d, inner, None) ELSE None

\* The export that holds the one post PostHello.
HelloExport == [kind |-> "json", data |-> Dict([posts |-> List(<<PostHello>>)])]

\* The run is past the transformation phase.
Transformed == pc \in {"images", "generate", "done"}

\* C1: a run without remote enrichment over the single post PostHello completes
\* (it never fails), its normalized post has title "Hello World", slug
\* "hello-world" and tags ["Tag-t1"], and the document written for it starts with
\* '---\ntitle: "Hello World"'.
C1_HelloWorldEndToEnd ==
    (export_file = HelloExport /\ (opts.skip_enrichment \/ ~opts.api_key)) =>
        /\ pc # "failed"
        /\ Transformed =>
              /\ Len(transformed_posts) = 1
              /\ transformed_posts[1].title = Str(<<"H","e","l","l","o"," ","W","o","r","l","d">>)
              /\ transformed_posts[1].slug = Str(<<"h","e","l","l","o","-","w","o","r","l","d">>)
              /\ transformed_posts[1].tags = List(<<Str(<<"T","a","g","-","t","1">>)>>)
        /\ (pc = "done" /\ ~opts.dry_run) =>
              \E f \in DOMAIN post_files :
                  StartsWith(post_files[f], <<"-","-","-","\n","t","i","t","l","e",":"," ","\"","H","e","l","l","o"," ","W","o","r","l","d","\"">>)

\* The cover image the precedence rule gives: enriched.coverImage.url if truthy,
\* else raw.coverImage if truthy, else null.
RuledCoverImage(raw, enriched) ==
    FirstTruthy(<<Nested(enriched, "coverImage", "url"), Get(raw, "coverImage", None)>>,
                None)

\* C2: in both dialects metadata resolution raises nothing and returns the cover
\* image of the precedence rule, for every raw post and enrichment record;
\* a coverImage field that is null is no error.
C2_CoverImagePrecedence ==
    \A d \in Called :
        /\ result[d].metadata.t = "metadata"
        /\ result[d].metadata.cover_image_url = RuledCoverImage(original_post, enriched_post)

\* C3: once the transformation phase is over every loaded post has its normalized
\* post, enrichment record or not, and a finished run that writes files has
\* written a document under each post's slug.
C3_NoPostLeftOut ==
    /\ Transformed => Len(transformed_posts) = Len(posts)
    /\ (pc = "done" /\ ~opts.dry_run) =>
          \A k \in 1..Len(posts) :
              \E f \in DOMAIN post_files : f.name = posts[k]["slug"].s \o <<".","m","d">>

\* C4: an exception raised inside transform_post for one post does not abort the
\* run: the run never fails after a transform_post call.
C4_TransformFailureDoesNotAbort ==
    ~(pc = "failed" /\ attempt.t = "call")

\* The content the precedence rule gives: the first non-empty of
\* enriched.content.markdown, enriched.content.html, raw.contentMarkdown,
\* raw.content, else the empty string.
RuledContent(raw, enriched) ==
    FirstTruthy(<<Nested(enriched, "content", "markdown"),
                  Nested(enriched, "content", "html"),
                  Get(raw, "contentMarkdown", None),
                  Get(raw, "content", None)>>, EmptyStr)

\* C5: the extracted content is the first non-empty of enriched.content.markdown,
\* enriched.content.html, raw.contentMarkdown, raw.content, the empty string when
\* there is none; it is the field's value unchanged, and the two dialects
\* extract the same.
C5_ContentPrecedence ==
    /\ \A d \in Called : result[d].content = RuledContent(original_post, enriched_post)
    /\ Called = {"obsidian", "eleventy"} => result.obsidian.content = result.eleventy.content

\* Both dialects have extracted the enrichment record's html: its markdown is
\* empty, and the raw post has content of its own.
C5_HtmlChosen ==
    /\ Called = {"obsidian", "eleventy"}
    /\ Nested(enriched_post, "content", "markdown") = EmptyStr
    /\ Truthy(Get(original_post, "contentMarkdown", None))
    /\ result.obsidian.content = Str(<<"<","p",">","h","<","/","p",">">>)
    /\ result.eleventy.content = Str(<<"<","p",">","h","<","/","p",">">>)

\* The slugify of a dialect.
SlugifyOf(d, text) ==
    IF d = "obsidian" THEN ObsidianTransformer_slugify(text) ELSE ContentTransformer_slugify(text)

\* C6: resolved with an empty enrichment record, the slug is slugify(raw.title)
\* when the raw post has no slug and the raw post's slug, whatever it is,
\* otherwise; a truthy slug of the enrichment record wins over both.
C6_SlugPrecedence ==
    \A d \in Resolved :
        /\ (DOMAIN enriched_post = {} /\ "slug" \notin DOMAIN original_post
                /\ "title" \in DOMAIN original_post) =>
              result[d].metadata.slug = Str(SlugifyOf(d, original_post["title"].s))
        /\ (DOMAIN enriched_post = {} /\ "slug" \in DOMAIN original_post) =>
              result[d].metadata.slug = original_post["slug"]
        /\ Truthy(Get(enriched_post, "slug", None)) =>
              result[d].metadata.slug = enriched_post["slug"]

\* Both dialects have slugified the title of a raw post without slug.
C6_SlugFromTitle ==
    /\ Resolved = {"obsidian", "eleventy"}
    /\ DOMAIN enriched_post = {}
    /\ "slug" \notin DOMAIN original_post
    /\ Get(original_post, "title", None) = Str(<<" "," ","A"," ","-","-"," ","b","_","c"," "," ">>)
    /\ result.obsidian.metadata.slug = Str(<<"a","-","b","_","c">>)
    /\ result.eleventy.metadata.slug = Str(<<"a","-","b","_","c">>)

\* The name the rule gives one entry of a tag list: an object's name, its id
\* when it has no name or an empty or null one, the string form of a bare id.
RuledTagName(tag) ==
    IF tag.t = "dict"
    THEN FirstTruthy(<<Get(tag.d, "name", None)>>, Get(tag.d, "id", EmptyStr))
    ELSE Str(PyStr(tag))

\* The tags the rule resolves: the enrichment record's, the raw post's bare ids
\* when the record carries none, each entry's name in the list's order.
RuledTags(raw, enriched) ==
    LET entries == FirstTruthy(<<Get(enriched, "tags", None)>>,
                               Get(raw, "tags", List(<< >>))).l
    IN [k \in 1..Len(entries) |-> RuledTagName(entries[k])]

\* C7: the tags are the names of the list's entries, in order and with
\* duplicates: an object's name, its id when the name is missing, empty or null,
\* the string form of a bare id; the raw post's tag ids when the enrichment
\* record carries no tags.  The notes dialect cleans each name.
C7_TagNames ==
    /\ "eleventy" \in Resolved =>
          result.eleventy.metadata.tags = List(RuledTags(original_post, enriched_post))
    /\ "obsidian" \in Resolved =>
          result.obsidian.metadata.tags =
              List(SelectSeq([k \in 1..Len(RuledTags(original_post, enriched_post)) |->
                                Str(ObsidianFormatter_clean_tag_name(
                                        RuledTags(original_post, enriched_post)[k].s))],
                             Truthy))

\* The series the rule resolves: the name, else the id, of the enrichment
\* record's series object; else the raw post's series id as a string; null when
\* there is neither.
RuledSeries(raw, enriched) ==
    LET series == Get(enriched, "series", None)
    IN IF series.t = "dict"
       THEN Get(series.d, "name", Get(series.d, "id", EmptyStr))
       ELSE IF "series" \in DOMAIN raw THEN Str(PyStr(raw["series"]))
       ELSE None

\* C8: the series is the name (else the id) of the enrichment record's series
\* object, otherwise the raw post's scalar series id as a string, and null only
\* when neither has a series.
C8_SeriesResolution ==
    \A d \in Resolved :
        ~Truthy(Get(enriched_post, "series", None)) \/ enriched_post["series"].t = "dict"
            => result[d].metadata.series = RuledSeries(original_post, enriched_post)

\* The input of the date rule: the first truthy of enriched.publishedAt,
\* raw.publishedAt, raw.dateAdded.
DateInput(raw, enriched) ==
    FirstTruthy(<<Get(enriched, "publishedAt", None), Get(raw, "publishedAt", None)>>,
                Get(raw, "dateAdded", None))

\* The date rule: the part before the first 'T' of a string that holds one;
\* else the date of the ISO-8601 string, a 'Z' read as +00:00, as YYYY-MM-DD;
\* the current date for an input that is empty, absent or does not parse.
RuledDate(input, now) ==
    IF ~Truthy(input) \/ input.t # "str" THEN Str(now)
    ELSE IF \E k \in 1..Len(input.s) : input.s[k] = "T"
         THEN Str(SubSeq(input.s, 1,
                    (CHOOSE k \in 1..Len(input.s) :
                        input.s[k] = "T" /\ \A j \in 1..(k - 1) : input.s[j] # "T") - 1))
    ELSE IF IsRaise(fromisoformat(Replace(input.s, <<"Z">>, <<"+","0","0",":","0","0">>))) THEN Str(now)
    ELSE Str(strftime(fromisoformat(Replace(input.s, <<"Z">>, <<"+","0","0",":","0","0">>))))

\* C9: in both dialects the date is what the date rule makes of the first truthy
\* of enriched.publishedAt, raw.publishedAt, raw.dateAdded, and the two dialects
\* agree.
C9_DateRule ==
    /\ \A d \in Resolved :
          result[d].metadata.date = RuledDate(DateInput(original_post, enriched_post), today)
    /\ Resolved = {"obsidian", "eleventy"} =>
          result.obsidian.metadata.date = result.eleventy.metadata.date

\* Both dialects have cut "2023-05-01T10:00:00.000Z", the raw post's publishedAt,
\* down to "2023-05-01".
C9_TimestampCut ==
    /\ Resolved = {"obsidian", "eleventy"}
    /\ DateInput(original_post, enriched_post) = Str(<<"2","0","2","3","-","0","5","-","0","1","T","1","0",":","0","0",":","0","0",".","0","0","0","Z">>)
    /\ result.obsidian.metadata.date = Str(<<"2","0","2","3","-","0","5","-","0","1">>)
    /\ result.eleventy.metadata.date = Str(<<"2","0","2","3","-","0","5","-","0","1">>)

\* A string of the form YYYY-MM-DD.
IsYMD(v) ==
    /\ v.t = "str"
    /\ Len(v.s) = 10
    /\ \A k \in {1, 2, 3, 4, 6, 7, 9, 10} : v.s[k] \in Digits
    /\ v.s[5] = "-" /\ v.s[8] = "-"

\* C10: the date of a normalized post, and the updated date of the notes
\* dialect's, is a string of the form YYYY-MM-DD.
C10_DatesAreYMD ==
    /\ \A d \in Resolved : IsYMD(result[d].metadata.date)
    /\ "obsidian" \in Resolved => IsYMD(result.obsidian.metadata.updated)

\* --------------------------------------------- the text functions, call by call
\* Longest title built from TitleChars that is given to _slugify.
MaxTitleLen == 4
\* How often a text function is applied in a row, to its own result from the
\* second time on.
MaxCalls == 2

\* A lower-case and an upper-case letter, a digit, the underscore, the hyphen,
\* a space and a special character.
TitleChars == {"a", "B", "1", "_", "-", " ", "!"}

\* The texts _slugify is given: every short string of TitleChars, and titles.
Titles ==
    SeqsUpTo(TitleChars, MaxTitleLen)
    \cup {<<"H","e","l","l","o",","," ","W","o","r","l","d","!">>, <<" "," ","A"," ","-","-"," ","b","_","c"," "," ">>, <<"N","e","x","t",".","j","s",":"," ","T","i","p","s"," ","&"," ","T","r","i","c","k","s">>, <<"-","-","T","o","p","\t","1","0","-","-">>}

\* The state before a call of a text function: transformers of both dialects,
\* nothing called.
InitText ==
    /\ call = NoCall
    /\ original_post = EmptyDict
    /\ enriched_post = EmptyDict
    /\ result = EmptyDict
    /\ today = Today
    /\ pc = "text"
    /\ export_file = [kind |-> "missing"]
    /\ parser = NewParser
    /\ opts = [skip_enrichment |-> TRUE, api_key |-> FALSE, skip_images |-> TRUE,
               dry_run |-> TRUE, limit |-> None]
    /\ posts = << >>
    /\ enriched_data = EmptyDict
    /\ i = 0
    /\ attempt = NoAttempt
    /\ transformed_posts = << >>
    /\ updated_posts = << >>
    /\ dirs = {}
    /\ image_files = EmptyDict
    /\ post_files = EmptyDict
    /\ error = None
    /\ exit_status = None

\* The first call of function f, on text, returning value.
FirstCall(f, text, value) == [t |-> "call", f |-> f, arg |-> text, values |-> <<value>>]

\* The function f can be called on its last result.
CanRepeat(f) == call.t = "call" /\ call.f = f /\ Len(call.values) < MaxCalls

\* The last result of the calls so far.
LastValue == call.values[Len(call.values)]

\* ObsidianTransformer._slugify(text), then _slugify of the result
ObsidianSlugify ==
    /\ pc = "text"
    /\ \/ /\ call = NoCall
          /\ \E text \in Titles :
                call' = FirstCall("ObsidianTransformer._slugify", text,
                                  ObsidianTransformer_slugify(text))
       \/ /\ CanRepeat("ObsidianTransformer._slugify")
          /\ call' = [call EXCEPT !.values =
                         Append(@, ObsidianTransformer_slugify(LastValue))]
    /\ UNCHANGED <<run_vars, original_post, enriched_post, result, today>>

\* ContentTransformer._slugify(text), then _slugify of the result
ContentSlugify ==
    /\ pc = "text"
    /\ \/ /\ call = NoCall
          /\ \E text \in Titles :
                call' = FirstCall("ContentTransformer._slugify", text,
                                  ContentTransformer_slugify(text))
       \/ /\ CanRepeat("ContentTransformer._slugify")
          /\ call' = [call EXCEPT !.values =
                         Append(@, ContentTransformer_slugify(LastValue))]
    /\ UNCHANGED <<run_vars, original_post, enriched_post, result, today>>

\* Most attributes on one image of the texts given to _clean_image_urls.
MaxAttrs == 2

\* The attributes Hashnode puts after an image's URL.
ImageAttrs == {<<" ","a","l","i","g","n","=","\"","c","e","n","t","e","r","\"">>, <<" ","w","i","d","t","h","=","\"","5","0","\"">>, <<" ","h","e","i","g","h","t","=","\"","3","\"">>}

\* ![alt](url attrs): a Markdown image with a sequence of attributes
Image(alt, url, attrs) == <<"!","[">> \o alt \o <<"]","(">> \o url \o Flatten(attrs, 1) \o <<")">>

\* The texts _clean_image_urls is given: one image with up to MaxAttrs
\* attributes in any order, and the same followed on its line by a second image
\* with at most one attribute.
ImageTexts ==
    {Image(<<"a">>, <<"h","t","t","p",":","/","/","x",".","j","p","g">>, as) : as \in SeqsUpTo(ImageAttrs, MaxAttrs)}
    \cup {Image(<<"a">>, <<"h","t","t","p",":","/","/","x",".","j","p","g">>, as) \o <<" ","a","n","d"," ">> \o Image(<<"b">>, <<"h","t","t","p",":","/","/","y",".","p","n","g">>, bs) :
            as \in SeqsUpTo(ImageAttrs, MaxAttrs), bs \in SeqsUpTo(ImageAttrs, 1)}

\* ObsidianTransformer._clean_image_urls(content), then again on the result
ObsidianCleanImageUrls ==
    /\ pc = "text"
    /\ \/ /\ call = NoCall
          /\ \E text \in ImageTexts :
                call' = FirstCall("ObsidianTransformer._clean_image_urls", text,
                                  ObsidianTransformer_clean_image_urls(text))
       \/ /\ CanRepeat("ObsidianTransformer._clean_image_urls")
          /\ call' = [call EXCEPT !.values =
                         Append(@, ObsidianTransformer_clean_image_urls(LastValue))]
    /\ UNCHANGED <<run_vars, original_post, enriched_post, result, today>>

\* ContentTransformer._clean_image_urls(content), then again on the result
ContentCleanImageUrls ==
    /\ pc = "text"
    /\ \/ /\ call = NoCall
          /\ \E text \in ImageTexts :
                call' = FirstCall("ContentTransformer._clean_image_urls", text,
                                  ContentTransformer_clean_image_urls(text))
       \/ /\ CanRepeat("ContentTransformer._clean_image_urls")
          /\ call' = [call EXCEPT !.values =
                         Append(@, ContentTransformer_clean_image_urls(LastValue))]
    /\ UNCHANGED <<run_vars, original_post, enriched_post, result, today>>

\* Most pieces in one of the bodies given to the content cleanups.
MaxPieces == 3

\* The pieces of such a body: the passthrough markers, whole and in halves, a
\* template expression, text and a line break.
BodyPieces ==
    {RAW_START, RAW_END, <<"{","{"," ","f","o","o"," ","}","}">>, <<"{","%"," ">>, <<"r","a","w"," ","%","}">>, <<"t","e","x","t">>, <<"\n">>}

\* The bodies the content cleanups are given: up to MaxPieces pieces in a row,
\* and bodies with unpaired delimiters.
Bodies ==
    {Flatten(ps, 1) : ps \in SeqsUpTo(BodyPieces, MaxPieces)}
    \cup {<<"t","e","x","t"," ","{","{"," ","f","o","o"," ","}","}"," ","m","o","r","e">>, <<"}","}"," ","x"," ","{","{">>, <<"a"," ","{","#"," ","n","o","t","e"," ","#","}"," ","b">>, <<"5","0","%","}"," ","o","f","f"," ","{","{">>}

\* ContentTransformer._clean_content(content), then again on the result
ContentCleanContent ==
    /\ pc = "text"
    /\ \/ /\ call = NoCall
          /\ \E text \in Bodies :
                call' = FirstCall("ContentTransformer._clean_content", text,
                                  ContentTransformer_clean_content(Str(text)).s)
       \/ /\ CanRepeat("ContentTransformer._clean_content")
          /\ call' = [call EXCEPT !.values =
                         Append(@, ContentTransformer_clean_content(Str(LastValue)).s)]
    /\ UNCHANGED <<run_vars, original_post, enriched_post, result, today>>

\* ObsidianTransformer._clean_content_for_obsidian(content), then again on the
\* result
ObsidianCleanContent ==
    /\ pc = "text"
    /\ \/ /\ call = NoCall
          /\ \E text \in Bodies :
                call' = FirstCall("ObsidianTransformer._clean_content_for_obsidian", text,
                                  ObsidianTransformer_clean_content_for_obsidian(Str(text)).s)
       \/ /\ CanRepeat("ObsidianTransformer._clean_content_for_obsidian")
          /\ call' = [call EXCEPT !.values =
                         Append(@, ObsidianTransformer_clean_content_for_obsidian(
                                       Str(LastValue)).s)]
    /\ UNCHANGED <<run_vars, original_post, enriched_post, result, today>>


\* ---------------------------------------------------------------------------
\* Descriptions given to the notes formatter

\* n plain characters
Plain(n) == [k \in 1..n |-> "x"]

\* what may stand around a description: nothing, a space, a line break
Paddings == {<< >>, <<" ">>, <<"\n">>}

\* descriptions without surrounding whitespace: plain ones around the length
\* limit, ones with each special character, ones with a line break
BareDescriptions ==
    {<<"A"," ","s","i","m","p","l","e"," ","p","o","s","t">>, Plain(79), Plain(80), Plain(81),
     <<"T","i","p","s",":"," ","o","n","e">>, <<"a","#","b">>, <<"i","t","'","s">>, <<"s","a","y"," ","\"","h","i","\"">>, <<"a","\n","b">>, <<"a","\n","\n","b",":"," ","c">>, << >>}

\* the 'brief' of a post is free text, so whitespace may surround it
Descriptions ==
    {left \o text \o right : left \in Paddings, text \in BareDescriptions, right \in Paddings}

\* ObsidianFormatter._format_description_yaml(description)
FormatDescriptionYaml ==
    /\ pc = "text"
    /\ call = NoCall
    /\ \E description \in Descriptions :
          call' = FirstCall("ObsidianFormatter._format_description_yaml", description,
                            ObsidianFormatter_format_description_yaml(description))
    /\ UNCHANGED <<run_vars, original_post, enriched_post, result, today>>
NextText ==
    \/ ObsidianSlugify
    \/ ContentSlugify
    \/ ObsidianCleanImageUrls
    \/ ContentCleanImageUrls
    \/ ContentCleanContent
    \/ ObsidianCleanContent
    \/ FormatDescriptionYaml

\* The text functions of the two transformers, each applied to a text and then
\* to its own result.
SpecText == InitText /\ [][NextText]_vars

\* ---------------------------------------------------------------------------
\* The rewriting of a body's image URLs, in both dialects

\* ContentTransformer.extract_images_from_content(content): the stripped matches
\* of !\[.*?\]\(([^)]+)\) that start with http:// or https://, in order
ContentTransformer_extract_images_from_content(content) ==
    IF Len(content) = 0 THEN << >>
    ELSE With(FindImages(content, 1), LAMBDA matches :
            SelectSeq([k \in 1..Len(matches) |-> Strip(matches[k], SpaceChars)],
                      IsRemoteUrl))

\* '/images/posts/<post_slug>/<name>'
SitePath(post_slug, name) == <<"/","i","m","a","g","e","s","/","p","o","s","t","s","/">> \o post_slug \o <<"/">> \o name

\* The loop of ImageHandler._download_content_images from image k on: one
\* download per extracted URL, in order, as content_<k>; each success replaces
\* every occurrence of the URL in the content as updated so far.
RECURSIVE ImageHandler_download_content_loop(_, _, _, _, _, _)
ImageHandler_download_content_loop(image_urls, k, updated_content, post_slug, fetched, files) ==
    IF k > Len(image_urls) THEN [content |-> updated_content, files |-> files]
    ELSE With(ImageHandler_download_image(image_urls[k], post_slug,
                        <<"c","o","n","t","e","n","t","_">> \o IntToStr(k), fetched[k], files), LAMBDA got :
         With(IF Truthy(got.name)
              THEN Replace(updated_content, image_urls[k],
                           SitePath(post_slug, got.name.s))
              ELSE updated_content, LAMBDA replaced :
         With(k + 1, LAMBDA next :
            ImageHandler_download_content_loop(image_urls, next, replaced, post_slug,
                                               fetched, got.files))))

\* ImageHandler._download_content_images(content, post_dir, post_slug)
ImageHandler_download_content_images(content, post_slug, fetched, files) ==
    With(ContentTransformer_extract_images_from_content(content), LAMBDA image_urls :
        ImageHandler_download_content_loop(image_urls, 1, content, post_slug,
                                           fetched, files))

\* ImageHandler._download_cover_image(cover_url, post_dir): the cover reference
\* and the image files afterwards
ImageHandler_download_cover_image(cover_url, post_slug, fetched, files) ==
    IF ~IsRemoteUrl(cover_url) THEN [cover |-> Str(cover_url), files |-> files]
    ELSE With(ImageHandler_download_image(cover_url, post_slug, <<"c","o","v","e","r">>, fetched, files),
              LAMBDA got :
            IF Truthy(got.name)
            THEN [cover |-> Str(SitePath(post_slug, got.name.s)), files |-> got.files]
            ELSE [cover |-> Str(cover_url), files |-> got.files])

\* ImageHandler.download_post_images(post, post_slug): the copy of the post with
\* its coverImage and its content replaced, and the image files afterwards
ImageHandler_download_post_images(post, post_slug, fetched_cover, fetched, files) ==
    With(IF Truthy(post.coverImage)
         THEN ImageHandler_download_cover_image(post.coverImage.s, post_slug,
                                                fetched_cover, files)
         ELSE [cover |-> post.coverImage, files |-> files], LAMBDA cover :
    With(IF Truthy(post.content)
         THEN ImageHandler_download_content_images(post.content.s, post_slug,
                                                   fetched, cover.files)
         ELSE [content |-> post.content.s, files |-> cover.files], LAMBDA body :
        [post |-> [post EXCEPT !.coverImage = cover.cover,
                               !.content = Str(body.content)],
         files |-> body.files]))

\* Most images of a body.
MaxImages == 2

\* Image URLs: one with an extension, the same with a query (the first is a
\* prefix of it), one without extension, and a relative path.
ImageUrls ==
    {<<"h","t","t","p","s",":","/","/","c",".","i","o","/","a",".","p","n","g">>, <<"h","t","t","p","s",":","/","/","c",".","i","o","/","a",".","p","n","g","?","w","=","2">>, <<"h","t","t","p","s",":","/","/","c",".","i","o","/","b">>, <<".","/","c",".","g","i","f">>}

\* The bodies: images side by side, and one whose text also names the URL
RewriteBodies ==
    {Flatten([k \in 1..Len(urls) |-> <<"!","[","i","]","(">> \o urls[k] \o <<")"," ">>], 1) :
        urls \in SeqsUpTo(ImageUrls, MaxImages)}
    \cup {<<"f","r","o","m"," ","h","t","t","p","s",":","/","/","c",".","i","o","/","a",".","p","n","g",":"," ","!","[","i","]","(","h","t","t","p","s",":","/","/","c",".","i","o","/","a",".","p","n","g",")">>}

\* The slug of the post whose body is rewritten.
RewriteSlug == <<"f","o","o">>

\* The state before a body is rewritten: an empty image directory.
InitImages ==
    /\ call = NoCall
    /\ original_post = EmptyDict
    /\ enriched_post = EmptyDict
    /\ result = EmptyDict
    /\ today = Today
    /\ pc = "rewrite"
    /\ export_file = [kind |-> "missing"]
    /\ parser = NewParser
    /\ opts = [skip_enrichment |-> TRUE, api_key |-> FALSE, skip_images |-> FALSE,
               dry_run |-> FALSE, limit |-> None]
    /\ posts = << >>
    /\ enriched_data = EmptyDict
    /\ i = 0
    /\ attempt = NoAttempt
    /\ transformed_posts = << >>
    /\ updated_posts = << >>
    /\ dirs = {}
    /\ image_files = EmptyDict
    /\ post_files = EmptyDict
    /\ error = None
    /\ exit_status = None

\* A call of a rewriting function f on content: fetched[k] tells whether the
\* k-th request brought an image; value is the rewritten content.
RewriteCall(f, content, fetched, value) ==
    [t |-> "call", f |-> f, arg |-> content, fetched |-> fetched, values |-> <<value>>]

\* HashNodeToObsidianConverter._download_content_images_obsidian(content, post_dir,
\* post_slug)
DownloadContentImagesObsidianCall ==
    /\ pc = "rewrite"
    /\ call = NoCall
    /\ \E content \in RewriteBodies :
       \E n \in {Len(ObsidianFormatter_extract_images_from_content(content))} :
       \E fetched \in [1..n -> BOOLEAN] :
       \E got \in {DownloadContentImagesObsidian(content, RewriteSlug, fetched,
                                                 image_files)} :
          /\ call' = RewriteCall(
                        "HashNodeToObsidianConverter._download_content_images_obsidian",
                        content, fetched, got.content)
          /\ image_files' = got.files
    /\ UNCHANGED <<export_file, parser, opts, pc, posts, enriched_data, i, attempt,
                   transformed_posts, updated_posts, dirs, post_files, error,
                   exit_status, original_post, enriched_post, result, today>>

\* ImageHandler._download_content_images(content, post_dir, post_slug)
DownloadContentImagesCall ==
    /\ pc = "rewrite"
    /\ call = NoCall
    /\ \E content \in RewriteBodies :
       \E n \in {Len(ContentTransformer_extract_images_from_content(content))} :
       \E fetched \in [1..n -> BOOLEAN] :
       \E got \in {ImageHandler_download_content_images(content, RewriteSlug, fetched,
                                                        image_files)} :
          /\ call' = RewriteCall("ImageHandler._download_content_images",
                                 content, fetched, got.content)
          /\ image_files' = got.files
    /\ UNCHANGED <<export_file, parser, opts, pc, posts, enriched_data, i, attempt,
                   transformed_posts, updated_posts, dirs, post_files, error,
                   exit_status, original_post, enriched_post, result, today>>

\* The posts the notes transformer makes of the pipeline's inputs.
ObsidianPosts ==
    {post \in {ObsidianTransformer_transform_post(input.original_post,
                                                  input.enriched_post, Today) :
                  input \in PipelineInputs} : ~IsRaise(post)}

\* The posts the site transformer makes of the pipeline's inputs.
EleventyPosts ==
    {post \in {ContentTransformer_transform_post(input.original_post,
                                                 input.enriched_post, Today) :
                  input \in PipelineInputs} : ~IsRaise(post)}

\* HashNodeToObsidianConverter._download_post_images_obsidian(post, post_slug),
\* post_slug being the post's slug as in _process_images_for_obsidian
DownloadPostImagesObsidianCall ==
    /\ pc = "rewrite"
    /\ call = NoCall
    /\ \E post \in ObsidianPosts :
       \E n \in {Len(ObsidianFormatter_extract_images_from_content(post.content.s))} :
       \E fetched_cover \in BOOLEAN, fetched \in [1..n -> BOOLEAN] :
       \E got \in {DownloadPostImagesObsidian(post, post.slug.s, fetched_cover, fetched,
                                              image_files)} :
          /\ call' = RewriteCall(
                        "HashNodeToObsidianConverter._download_post_images_obsidian",
                        post, [cover |-> fetched_cover, images |-> fetched], got.post)
          /\ image_files' = got.files
          /\ dirs' = dirs \cup {<<"images", "posts", post.slug.s>>}
    /\ UNCHANGED <<export_file, parser, opts, pc, posts, enriched_data, i, attempt,
                   transformed_posts, updated_posts, post_files, error,
                   exit_status, original_post, enriched_post, result, today>>

\* ImageHandler.download_post_images(post, post_slug), post_slug being the
\* post's slug as in batch_download_images
DownloadPostImagesCall ==
    /\ pc = "rewrite"
    /\ call = NoCall
    /\ \E post \in EleventyPosts :
       \E n \in {Len(ContentTransformer_extract_images_from_content(post.content.s))} :
       \E fetched_cover \in BOOLEAN, fetched \in [1..n -> BOOLEAN] :
       \E got \in {ImageHandler_download_post_images(post, post.slug.s, fetched_cover,
                                                     fetched, image_files)} :
          /\ call' = RewriteCall("ImageHandler.download_post_images",
                                 post, [cover |-> fetched_cover, images |-> fetched],
                                 got.post)
          /\ image_files' = got.files
          /\ dirs' = dirs \cup {<<"images", "posts", post.slug.s>>}
    /\ UNCHANGED <<export_file, parser, opts, pc, posts, enriched_data, i, attempt,
                   transformed_posts, updated_posts, post_files, error,
                   exit_status, original_post, enriched_post, result, today>>

NextImages ==
    \/ DownloadContentImagesObsidianCall
    \/ DownloadContentImagesCall
    \/ DownloadPostImagesObsidianCall
    \/ DownloadPostImagesCall

\* The image rewriting of both dialects, each applied to a body under every
\* outcome of its requests.
SpecImages == InitImages /\ [][NextImages]_vars

\* ---------------------------------------------------------------------------
\* The parser, method by method

\* Most posts of an export given to the parser alone.
MaxExportPosts == 2

\* A post whose _id is a number.
PostBadId == [_id |-> PyInt(9), title |-> Str(<<"N","i","n","e">>), slug |-> Str(<<"n","i","n","e">>)]

\* What the 'posts' array may hold: posts the loader keeps, posts with a field
\* missing or of the wrong type, and values that are no objects.
ParserPostPool ==
    {PostHello, PostCover, PostNoSlug, PostBadTitle, PostBadId, PyInt(7), Str(<<"x">>)}

\* The export files a parser may be given.
ParserFiles ==
    {[kind |-> "missing"], [kind |-> "garbled"],
     [kind |-> "json", data |-> List(<< >>)],
     [kind |-> "json", data |-> Dict(EmptyDict)],
     [kind |-> "json", data |-> Dict([posts |-> Str(<<"x">>)])],
     [kind |-> "json",
      data |-> Dict([posts |-> List(<<PostHello>>),
                     publication |-> Dict([_id |-> Str(<<"p","1">>), title |-> Str(<<"B","l","o","g">>)])])]}
    \cup {[kind |-> "json", data |-> Dict([posts |-> List(ps)])] :
            ps \in SeqsUpTo(ParserPostPool, MaxExportPosts)}

\* A new parser on an export file.
InitParser ==
    /\ export_file \in ParserFiles
    /\ parser = NewParser
    /\ call = NoCall
    /\ original_post = EmptyDict
    /\ enriched_post = EmptyDict
    /\ result = EmptyDict
    /\ today = Today
    /\ pc = "parser"
    /\ opts = [skip_enrichment |-> TRUE, api_key |-> FALSE, skip_images |-> TRUE,
               dry_run |-> TRUE, limit |-> None]
    /\ posts = << >>
    /\ enriched_data = EmptyDict
    /\ i = 0
    /\ attempt = NoAttempt
    /\ transformed_posts = << >>
    /\ updated_posts = << >>
    /\ dirs = {}
    /\ image_files = EmptyDict
    /\ post_files = EmptyDict
    /\ error = None
    /\ exit_status = None

\* What load_export did before a query: "none" when it was not called, else
\* what it raised (None when it completed).
LoadBefore == IF call = NoCall THEN [t |-> "uncalled"] ELSE call.value

\* A query can be made on a new parser and after load_export.
CanQuery == pc = "parser" /\ (IF call = NoCall THEN TRUE ELSE call.f = "load_export")

\* The call of method f with the arguments args, giving value.
MethodCall(f, args, load, value) ==
    [t |-> "call", f |-> f, args |-> args, load |-> load, value |-> value]

\* HashNodeParser.load_export()
LoadExport ==
    /\ pc = "parser"
    /\ call = NoCall
    /\ \E loaded \in {HashNodeParser_load_export_on(export_file)} :
          /\ parser' = loaded.parser
          /\ call' = MethodCall("load_export", << >>, [t |-> "uncalled"], loaded.raised)
    /\ UNCHANGED <<export_file, opts, pc, posts, enriched_data, i, attempt,
                   transformed_posts, updated_posts, dirs, image_files, post_files,
                   error, exit_status, original_post, enriched_post, result, today>>

\* HashNodeParser.get_posts(limit)
GetPosts ==
    /\ CanQuery
    /\ \E limit \in {None, PyInt(1)} :
          call' = MethodCall("get_posts", <<limit>>, LoadBefore,
                             List(HashNodeParser_get_posts(parser._posts, limit)))
    /\ UNCHANGED <<run_vars, original_post, enriched_post, result, today>>

\* HashNodeParser.get_post_ids(limit)
GetPostIds ==
    /\ CanQuery
    /\ \E limit \in {None, PyInt(1)} :
          call' = MethodCall("get_post_ids", <<limit>>, LoadBefore,
                             HashNodeParser_get_post_ids(parser, limit))
    /\ UNCHANGED <<run_vars, original_post, enriched_post, result, today>>

\* HashNodeParser.get_publication_info()
GetPublicationInfo ==
    /\ CanQuery
    /\ call' = MethodCall("get_publication_info", << >>, LoadBefore,
                          HashNodeParser_get_publication_info(parser))
    /\ UNCHANGED <<run_vars, original_post, enriched_post, result, today>>

\* HashNodeParser.get_summary()
GetSummary ==
    /\ CanQuery
    /\ call' = MethodCall("get_summary", << >>, LoadBefore,
                          HashNodeParser_get_summary(parser))
    /\ UNCHANGED <<run_vars, original_post, enriched_post, result, today>>

\* HashNodeParser.get_all_tags()
GetAllTags ==
    /\ CanQuery
    /\ \E value \in ListsOf(HashNodeParser_get_all_tags(parser)) :
          call' = MethodCall("get_all_tags", << >>, LoadBefore, value)
    /\ UNCHANGED <<run_vars, original_post, enriched_post, result, today>>

\* HashNodeParser.get_all_series()
GetAllSeries ==
    /\ CanQuery
    /\ \E value \in ListsOf(HashNodeParser_get_all_series(parser)) :
          call' = MethodCall("get_all_series", << >>, LoadBefore, value)
    /\ UNCHANGED <<run_vars, original_post, enriched_post, result, today>>

NextParser ==
    \/ LoadExport
    \/ GetPosts
    \/ GetPostIds
    \/ GetPublicationInfo
    \/ GetSummary
    \/ GetAllTags
    \/ GetAllSeries

\* A parser on an export file: load_export or not, then one query.
SpecParser == InitParser /\ [][NextParser]_vars

\* The reading time a dialect resolved: reading_time in the notes dialect,
\* read_time in the site-generator dialect.
ReadingTimeOf(d) ==
    IF d = "obsidian" THEN result[d].metadata.reading_time ELSE result[d].metadata.read_time

\* The truthy reading times of the raw post: its readTimeInMinutes and, in the
\* notes dialect, its readTime.
RawReadingTimes(d, raw) ==
    {v \in {Get(raw, "readTimeInMinutes", None)}
            \cup (IF d = "obsidian" THEN {Get(raw, "readTime", None)} ELSE {}) : Truthy(v)}

\* C11: the reading time is the enrichment record's readTimeInMinutes if truthy,
\* else the raw post's value if truthy, else 5; it is never null and never 0.
C11_ReadingTime ==
    \A d \in Resolved :
        /\ ReadingTimeOf(d).t = "int"
        /\ ReadingTimeOf(d).n # 0
        /\ Truthy(Get(enriched_post, "readTimeInMinutes", None)) =>
              ReadingTimeOf(d) = enriched_post["readTimeInMinutes"]
        /\ (~Truthy(Get(enriched_post, "readTimeInMinutes", None))
                /\ RawReadingTimes(d, original_post) # {}) =>
              ReadingTimeOf(d) \in RawReadingTimes(d, original_post)
        /\ (~Truthy(Get(enriched_post, "readTimeInMinutes", None))
                /\ RawReadingTimes(d, original_post) = {}) =>
              ReadingTimeOf(d) = PyInt(5)

\* The status the rule gives a raw post: published when isActive is true or
\* absent, draft otherwise.
RuledStatus(raw) ==
    IF "isActive" \notin DOMAIN raw \/ raw["isActive"] = Bool(TRUE)
    THEN List(<<Str(<<"p","u","b","l","i","s","h","e","d">>)>>) ELSE List(<<Str(<<"d","r","a","f","t">>)>>)

\* The file the rule gives a normalized post: <slug>.md under drafts/ when its
\* status is draft, under posts/ otherwise.
RuledPostFile(post) ==
    [dir |-> IF post.status = List(<<Str(<<"d","r","a","f","t">>)>>) THEN "drafts" ELSE "posts",
     name |-> post.slug.s \o <<".","m","d">>]

RuledCleanTag(name) ==
    LET kept == SelectSeq(name, LAMBDA c : c \in WordChars \cup {"-", " ", "."})
    IN [k \in 1..Len(kept) |-> IF kept[k] \in {" ", "."} THEN "_" ELSE kept[k]]

\* Every entry of the enrichment record's tags is an object with a non-empty name.
AllTagsNamed(enriched) ==
    /\ "tags" \in DOMAIN enriched
    /\ \A k \in 1..Len(enriched["tags"].l) :
          /\ enriched["tags"].l[k].t = "dict"
          /\ "name" \in DOMAIN enriched["tags"].l[k].d
          /\ enriched["tags"].l[k].d["name"].t = "str"
          /\ Len(enriched["tags"].l[k].d["name"].s) > 0

\* C13: the notes dialect's tags are the cleaned names, in order: spaces and
\* dots replaced by underscores ("Next.js" gives "Next_js"), quotes and every
\* character that is no letter, digit, underscore or hyphen removed; a tag whose
\* cleaned name is empty is dropped.
C13_TagCleanup ==
    ("obsidian" \in Resolved /\ AllTagsNamed(enriched_post)) =>
        result.obsidian.metadata.tags =
            List(SelectSeq([k \in 1..Len(enriched_post["tags"].l) |->
                              Str(RuledCleanTag(enriched_post["tags"].l[k].d["name"].s))],
                           Truthy))

\* The calls of _slugify, of either dialect.
SlugifyCalled ==
    call.t = "call" /\ call.f \in {"ObsidianTransformer._slugify", "ContentTransformer._slugify"}

\* A slug: lower-case letters, digits, underscores and single hyphens only, no
\* hyphen at either end.
IsSlug(s) ==
    /\ \A k \in 1..Len(s) : s[k] \in LowerLetters \cup Digits \cup {"_", "-"}
    /\ \A k \in 1..(Len(s) - 1) : ~(s[k] = "-" /\ s[k + 1] = "-")
    /\ Len(s) > 0 => (s[1] # "-" /\ s[Len(s)] # "-")

\* C14: slugify is idempotent, slugify(slugify(x)) = slugify(x), and its result
\* holds only lower-case letters, digits, underscores and single hyphens, with
\* no hyphen at either end.
C14_SlugifyIdempotent ==
    SlugifyCalled =>
        /\ \A k \in 1..Len(call.values) : call.values[k] = call.values[1]
        /\ IsSlug(call.values[1])

\* _slugify has been applied to "B -a" and again to its result "b-a".
C14_SlugifiedTwice ==
    /\ SlugifyCalled
    /\ call.arg = <<"B", " ", "-", "a">>
    /\ call.values = <<<<"b","-","a">>, <<"b","-","a">>>>

\* The calls of _clean_image_urls, of either dialect.
CleanImageUrlsCalled ==
    /\ call.t = "call"
    /\ call.f \in {"ObsidianTransformer._clean_image_urls",
                   "ContentTransformer._clean_image_urls"}

\* The text with its images' attributes gone: alt, URL and closing parenthesis
\* of each image, and the text between the images.
RuledCleanImages(text) ==
    IF Contains(text, <<" ","a","n","d"," ">>)
    THEN Image(<<"a">>, <<"h","t","t","p",":","/","/","x",".","j","p","g">>, << >>) \o <<" ","a","n","d"," ">> \o Image(<<"b">>, <<"h","t","t","p",":","/","/","y",".","p","n","g">>, << >>)
    ELSE Image(<<"a">>, <<"h","t","t","p",":","/","/","x",".","j","p","g">>, << >>)

\* C15: image-attribute stripping removes every align, width and height
\* attribute after the URL of each image, whatever their number and order and
\* the number of images, keeping alt, URL and closing parenthesis; applied to
\* its own result it changes nothing.
C15_ImageAttributesStripped ==
    CleanImageUrlsCalled =>
        /\ call.values[1] = RuledCleanImages(call.arg)
        /\ \A k \in 1..Len(call.values) : call.values[k] = call.values[1]

\* s ends with p
EndsWith(s, p) == OccursAt(s, p, Len(s) - Len(p) + 1)

\* An opening delimiter followed, later in the text, by its closing delimiter.
HasPair(s, open, close) ==
    \E a \in 1..Len(s) : \E b \in (a + 2)..Len(s) : OccursAt(s, open, a) /\ OccursAt(s, close, b)

\* The text holds a template delimiter pair: {{...}}, {%...%} or {#...#}.
HasDelimiterPair(s) ==
    \/ HasPair(s, <<"{","{">>, <<"}","}">>)
    \/ HasPair(s, <<"{","%">>, <<"%","}">>)
    \/ HasPair(s, <<"{","#">>, <<"#","}">>)

\* The text is wrapped in the passthrough markers, and in no second pair.
WrappedOnce(s) ==
    /\ StartsWith(s, RAW_START)
    /\ EndsWith(s, RAW_END)
    /\ ~StartsWith(s, RAW_START \o <<"\n">> \o RAW_START \o <<"\n">>)

\* C16: in the site-generator dialect the sanitized form of a body that holds a
\* template delimiter pair is wrapped in {% raw %} ... {% endraw %} exactly once,
\* sanitizing it again returns it unchanged, and a body without delimiter pair
\* is not wrapped.
C16_WrappedExactlyOnce ==
    (call.t = "call" /\ call.f = "ContentTransformer._clean_content") =>
        /\ HasDelimiterPair(call.arg) => WrappedOnce(call.values[1])
        /\ \A k \in 1..Len(call.values) : call.values[k] = call.values[1]
        /\ ~HasDelimiterPair(call.arg) => ~Contains(call.values[1], RAW_START)

\* C17: in the notes dialect the sanitized body holds no passthrough marker,
\* neither '{% raw %}' nor '{% endraw %}', whatever the body.
C17_NoPassthroughMarker ==
    (call.t = "call" /\ call.f = "ObsidianTransformer._clean_content_for_obsidian") =>
        /\ ~Contains(call.values[1], RAW_START)
        /\ ~Contains(call.values[1], RAW_END)

\* C18: a rendered document is '---', the YAML lines, '---', an empty line, then
\* the body: exactly one blank line stands between the closing '---' and the
\* first line of the post's body.
C18_BlankLineAfterFrontmatter ==
    (pc = "done" /\ ~opts.dry_run) =>
        \A f \in DOMAIN post_files :
            /\ StartsWith(post_files[f], <<"-","-","-","\n">>)
            /\ \E k \in 1..Len(transformed_posts) :
                  /\ Len(transformed_posts[k].content.s) > 0
                  /\ EndsWith(post_files[f],
                              <<"\n","-","-","-","\n","\n">> \o transformed_posts[k].content.s)
                  /\ ~EndsWith(post_files[f],
                               <<"\n","-","-","-","\n","\n","\n">> \o transformed_posts[k].content.s)

\* a call of the notes formatter on a description has been made
DescriptionFormatted ==
    /\ call.t = "call"
    /\ call.f = "ObsidianFormatter._format_description_yaml"

\* the description needs the block form: it holds a line break, more than 80
\* characters, or one of " ' : #
NeedsBlock(text) ==
    \/ Len(text) > 80
    \/ \E k \in 1..Len(text) : text[k] \in {"\n", "\"", "'", ":", "#"}

\* the literal block scalar of a text: '|', then each line indented by two spaces
BlockScalar(text) == <<"|","\n"," "," ">> \o Replace(text, <<"\n">>, <<"\n"," "," ">>)

\* the double-quoted scalar of a text
QuotedScalar(text) == <<"\"">> \o text \o <<"\"">>

\* C19 as stated: the formatter emits the block scalar of the description exactly
\* when the description holds a line break, more than 80 characters or one of
\* " ' : #, and its double-quoted scalar otherwise.
C19_BlockExactlyWhenNeeded ==
    DescriptionFormatted =>
        call.values[1] = IF NeedsBlock(call.arg) THEN BlockScalar(call.arg)
                         ELSE QuotedScalar(call.arg)

\* C19 amended: the formatter first trims the whitespace around the description;
\* it emits the block scalar of the trimmed description exactly when the trimmed
\* description holds a line break, more than 80 characters or one of " ' : #,
\* and the double-quoted scalar of the trimmed description otherwise.
C19_BlockExactlyWhenTrimmedNeeds ==
    DescriptionFormatted =>
        LET trimmed == Strip(call.arg, SpaceChars)
        IN call.values[1] = IF NeedsBlock(trimmed) THEN BlockScalar(trimmed)
                            ELSE QuotedScalar(trimmed)

\* a description of 80 plain characters followed by a line break was emitted
\* double-quoted
C19_PaddedLimitQuoted ==
    /\ DescriptionFormatted
    /\ call.arg = Plain(80) \o <<"\n">>
    /\ call.values[1] = QuotedScalar(Plain(80))

\* a body has been rewritten
Rewritten ==
    /\ call.t = "call"
    /\ call.f \in {"HashNodeToObsidianConverter._download_content_images_obsidian",
                   "ImageHandler._download_content_images"}

\* the local reference of the k-th image of a body, in the dialect of the call
LocalReference(k, url) ==
    IF call.f = "ImageHandler._download_content_images"
    THEN <<"/","i","m","a","g","e","s","/","p","o","s","t","s","/","f","o","o","/","c","o","n","t","e","n","t","_">> \o IntToStr(k) \o ImageExt(url)
    ELSE <<".",".","/","i","m","a","g","e","s","/","p","o","s","t","s","/","f","o","o","/","i","m","a","g","e","-">> \o IntToStr(k) \o ImageExt(url)

\* the body with its image references, apart from that no ')' in it: it reads
\* text, '(' reference ')' text ..., so its references are what stands between
\* each '(' and the next ')'
RECURSIVE References(_, _)
References(body, p) ==
    With(FindFrom(body, <<"(">>, p), LAMBDA open :
        IF open = 0 THEN << >>
        ELSE With(FindFrom(body, <<")">>, open), LAMBDA close :
                <<SubSeq(body, open + 1, close - 1)>>
                \o With(close + 1, LAMBDA next : References(body, next))))

\* C20: in the rewritten body every image URL that was downloaded reads as its
\* own local reference, every image URL that was not downloaded reads as it did
\* before, also when one URL is a prefix of another; with no download the body
\* is left as it was.
C20_EachUrlItsOwnReference ==
    Rewritten =>
        LET before == References(call.arg, 1)
            after == References(call.values[1], 1)
            remote == SelectSeq(before, IsRemoteUrl)
            Downloaded(url) == \E k \in 1..Len(remote) : remote[k] = url /\ call.fetched[k]
            First(url) == CHOOSE k \in 1..Len(remote) :
                             /\ remote[k] = url /\ call.fetched[k]
                             /\ \A j \in 1..(k - 1) : ~(remote[j] = url /\ call.fetched[j])
        IN /\ Len(after) = Len(before)
           /\ \A k \in 1..Len(before) :
                 after[k] = IF Downloaded(before[k])
                            THEN LocalReference(First(before[k]), before[k])
                            ELSE before[k]
           /\ (\A k \in 1..Len(remote) : ~call.fetched[k]) => call.values[1] = call.arg

\* ---------------------------------------------------------------------------
\* a query was made after load_export completed
QueriedLoaded(f) == call.t = "call" /\ call.f = f /\ call.load = None

\* the value is a string
IsString(v) == v.t = "str"

\* the post is kept by the rule: an object whose _id, title and slug are strings
RuledValid(post) ==
    /\ IsJsonObject(post)
    /\ \A field \in {"_id", "title", "slug"} : field \in DOMAIN post /\ IsString(post[field])

\* C21: load_export completes on every export whose 'posts' is a list, whatever
\* the posts are; get_posts then returns exactly the posts whose _id, title and
\* slug are strings, in the export's order.
C21_ExactlyValidPostsKept ==
    /\ (call.t = "call" /\ call.f = "load_export"
        /\ export_file.kind = "json" /\ export_file.data.t = "dict"
        /\ "posts" \in DOMAIN export_file.data.d
        /\ export_file.data.d["posts"].t = "list") => call.value = None
    /\ (QueriedLoaded("get_posts") /\ call.args = <<None>>) =>
          call.value = List(SelectSeq(export_file.data.d["posts"].l, RuledValid))

\* C29: on a parser on which load_export has not completed, get_posts,
\* get_post_ids, get_summary, get_all_tags, get_all_series and
\* get_publication_info each raise RuntimeError and return no data.
C29_QueriesBeforeLoadRaise ==
    (/\ call.t = "call"
     /\ call.f \in {"get_posts", "get_post_ids", "get_summary", "get_all_tags",
                    "get_all_series", "get_publication_info"}
     /\ call.load # None) => call.value = Raise("RuntimeError")

\* the export file cannot be read, is no JSON, is no object at its top, or has
\* no 'posts' list
PipelineFailure(file) ==
    \/ file.kind \in {"missing", "garbled"}
    \/ /\ file.kind = "json"
       /\ \/ file.data.t # "dict"
          \/ IF file.data.t = "dict"
             THEN IF "posts" \in DOMAIN file.data.d
                  THEN file.data.d["posts"].t # "list" ELSE TRUE
             ELSE FALSE

\* nothing of the phases after parsing has happened
NothingDone ==
    /\ posts = << >>
    /\ enriched_data = EmptyDict
    /\ attempt = NoAttempt
    /\ transformed_posts = << >>
    /\ updated_posts = << >>
    /\ dirs = {}
    /\ image_files = EmptyDict
    /\ post_files = EmptyDict

\* C22: a run on an export file that cannot be read, is no JSON, is no object or
\* has no 'posts' list ends, as soon as it has parsed, with a non-zero exit
\* status, and no enrichment, transformation, image download or file write
\* has happened.
C22_PipelineFailureIsFatal ==
    PipelineFailure(export_file) =>
        /\ NothingDone
        /\ pc \in {"parse", "failed"}
        /\ pc = "failed" => /\ IsRaise(error)
                            /\ exit_status.t = "int"
                            /\ exit_status.n # 0

\* a run on an export whose 'posts' is no list has failed
C22_BadPostsFailed ==
    /\ export_file.kind = "json"
    /\ export_file.data = Dict([posts |-> Str(<<"x">>)])
    /\ pc = "failed"
    /\ ~opts.dry_run
    /\ exit_status = PyInt(1)

\* C23: after _generate_files the document of each transformed post is in the
\* output, and as many documents are there as posts were transformed.
C23_OneDocumentPerPost ==
    (pc = "done" /\ ~opts.dry_run) =>
        /\ \A k \in 1..Len(transformed_posts) :
              \E f \in DOMAIN post_files :
                 post_files[f] = ObsidianTransformer_generate_obsidian_markdown(
                                     transformed_posts[k])
        /\ Cardinality(DOMAIN post_files) = Len(transformed_posts)

\* C24: throughout a run with --dry-run no directory is created and no post
\* document and no image file is written, whatever the other options are.
C24_DryRunWritesNothing ==
    opts.dry_run => /\ dirs = {}
                    /\ image_files = EmptyDict
                    /\ post_files = EmptyDict

\* the distinct image URLs of the body that was rewritten
DistinctUrls ==
    LET remote == SelectSeq(References(call.arg, 1), IsRemoteUrl)
    IN {remote[k] : k \in 1..Len(remote)}

\* C25: rewriting a body makes one download attempt per distinct image URL of
\* the body, so a URL that occurs several times is fetched once, into one file,
\* and every occurrence reads as that one local path.
C25_OneAttemptPerDistinctUrl ==
    Rewritten =>
        /\ Len(call.fetched) = Cardinality(DistinctUrls)
        /\ \A f, g \in DOMAIN image_files : image_files[f] = image_files[g] => f = g
        /\ LET before == References(call.arg, 1)
               after == References(call.values[1], 1)
           IN \A a, b \in 1..Len(before) :
                 (Len(after) = Len(before) /\ before[a] = before[b]) => after[a] = after[b]

\* the image file a local reference of a post names, if there is one
NamedFile(slug, reference) ==
    {f \in DOMAIN image_files :
        f.slug = slug /\ reference = <<".",".","/","i","m","a","g","e","s","/","p","o","s","t","s","/">> \o slug \o <<"/">> \o f.name}

\* the reference was substituted for the URL, and names a file fetched from it
FetchedFrom(slug, reference, url) ==
    reference # url => \E f \in NamedFile(slug, reference) : image_files[f] = url

\* C26: during image processing, every local reference that was put in the
\* place of a cover URL or of an image URL of a body names a file whose bytes
\* were fetched from that URL.
C26_ReferenceNamesItsOwnBytes ==
    (pc = "images" /\ ~opts.skip_images) =>
        \A k \in 1..Len(updated_posts) :
            LET before == transformed_posts[k]
                after == updated_posts[k]
                urls == FindImages(before.content.s, 1)
                references == FindImages(after.content.s, 1)
            IN /\ (before.cover_image.t = "str") =>
                     FetchedFrom(before.slug.s, after.cover_image.s, before.cover_image.s)
               /\ Len(references) = Len(urls)
               /\ \A j \in 1..Len(urls) :
                     FetchedFrom(before.slug.s, references[j], urls[j])

\* no file of that base name is in the post's image directory: the download of
\* the image was tried and failed
NotDownloaded(slug, base, url) ==
    [slug |-> slug, name |-> base \o ImageExt(url)] \notin DOMAIN image_files

\* C27: image processing never stops the run: it returns one post for each post
\* it is given, in order, and every cover URL and every image URL of which no
\* download succeeded stands in its post as the remote URL it was.
C27_FailedDownloadsKeepUrl ==
    (pc = "images" /\ ~opts.skip_images) =>
        /\ Len(updated_posts) = i - 1
        /\ \A k \in 1..Len(updated_posts) :
            LET before == transformed_posts[k]
                after == updated_posts[k]
                urls == FindImages(before.content.s, 1)
                references == FindImages(after.content.s, 1)
            IN /\ after.slug = before.slug
               /\ (/\ before.cover_image.t = "str"
                   /\ NotDownloaded(before.slug.s, <<"c","o","v","e","r">>, before.cover_image.s)) =>
                     after.cover_image = before.cover_image
               /\ Len(references) = Len(urls)
               /\ \A j \in 1..Len(urls) :
                     (\A a \in 1..Len(urls) :
                         urls[a] = urls[j] =>
                            NotDownloaded(before.slug.s, <<"i","m","a","g","e","-">> \o IntToStr(a), urls[a])) =>
                        references[j] = urls[j]

\* the image pass over a post has been made
PostRewritten ==
    /\ call.t = "call"
    /\ call.f \in {"HashNodeToObsidianConverter._download_post_images_obsidian",
                   "ImageHandler.download_post_images"}

\* the fields of a post the image pass may replace
ImageFields == {"content", "cover_image", "coverImage"}

RequestedUrls(post) ==
    (IF post.cover_image.t = "str" THEN {post.cover_image.s} ELSE {})
    \cup {ObsidianFormatter_extract_images_from_content(post.content.s)[k] :
            k \in 1..Len(ObsidianFormatter_extract_images_from_content(post.content.s))}

\* the image pass over one post when every request of a URL has the outcome
\* fixed for that URL
FixedImagePass(post, outcome, files) ==
    With(ObsidianFormatter_extract_images_from_content(post.content.s), LAMBDA urls :
        DownloadPostImagesObsidian(post, post.slug.s,
            IF post.cover_image.t = "str" THEN outcome[post.cover_image.s] ELSE FALSE,
            [j \in 1..Len(urls) |-> outcome[urls[j]]], files))

\* the image passes over the posts ps from post k on, in order, under fixed
\* outcomes: the updated posts and the image files
RECURSIVE FixedRun(_, _, _, _)
FixedRun(ps, k, outcome, acc) ==
    IF k > Len(ps) THEN acc
    ELSE With(FixedImagePass(ps[k], outcome, acc.files), LAMBDA got :
         With(k + 1, LAMBDA next :
            FixedRun(ps, next, outcome,
                     [posts |-> Append(acc.posts, got.post), files |-> got.files])))

\* the posts the image pass has gone over
Processed == Prefix(transformed_posts, Len(updated_posts))

\* the outcomes per URL under which the run is what it is
Explains(outcome) ==
    FixedRun(Processed, 1, outcome, [posts |-> << >>, files |-> EmptyDict])
        = [posts |-> updated_posts, files |-> image_files]

\* the document of the post when it is the only post of a run
AloneDocument(post, outcome) ==
    ObsidianTransformer_generate_obsidian_markdown(
        FixedImagePass(post, outcome, EmptyDict).post)

\* C30: under fixed outcomes per URL (and a fixed clock), the document of every
\* post the image pass has gone over is the document the post has when it is
\* the only post of the run, whatever posts came before it.
C30_DocumentAsIfAlone ==
    (pc = "images" /\ ~opts.skip_images) =>
        \A outcome \in [UNION {RequestedUrls(Processed[k]) : k \in 1..Len(Processed)}
                            -> BOOLEAN] :
            Explains(outcome) =>
                \A k \in 1..Len(updated_posts) :
                    ObsidianTransformer_generate_obsidian_markdown(updated_posts[k])
                        = AloneDocument(transformed_posts[k], outcome)
====
